---- MODULE Spec2Model ----
(***************************************************************************)
(* Forensic-Suite analysis core: the chunked keyword/hex scanner, the      *)
(* backup format classifier and the media carver, modelled from            *)
(* server/processors.ts (src/unnamed/part_000), server/bbAnalyzer.ts,      *)
(* server/storage.ts (src/unnamed/part_001) and server/routes.ts           *)
(* (src/unnamed/part_002).                                                 *)
(*                                                                         *)
(* Files are sequences of byte values (0..255).  Offsets are 0-based as in *)
(* the source; a TLA+ sequence index is the offset plus one.               *)
(***************************************************************************)
EXTENDS Integers, Sequences, FiniteSets, TLC

VARIABLES
    \* ---- keywordSearch / searchFileStreaming{Hex,Text} ----
    scanContent,     \* bytes of the file being searched
    scanNeedle,      \* searchBuf (hex mode) or query (text mode), as bytes
    scanMode,        \* matchType: "hex" or "text"
    scanCase,        \* caseSensitive
    chunkSize,       \* CHUNK_SIZE of the streaming scan
    scanPc,          \* "loop" (at the while test), "scan" (chunk read), "done"
    globalOffset,    \* let globalOffset
    carry,           \* let carry
    readStart,       \* const readStart of the current iteration
    bytesRead,       \* const bytesRead of the current iteration
    pos,             \* let pos of the inner loop
    hits,            \* offsets pushed by the streaming scan, in push order
    wholePc,         \* "todo" or "done": the whole-buffer scan of the same file
    wholeOffset,     \* let offset of the whole-buffer scan
    wholeHits,       \* offsets pushed by the whole-buffer scan
    \* ---- detectBackupFormat ----
    tree,            \* allFiles: the walked files, in walk order
    format,          \* the BBBackupFormat returned, or NoResult before the call
    \* ---- POST /api/carve, carveMedia, carveMediaStreaming ----
    uploads,         \* files still to be posted to /api/carve, in order
    carveFile,       \* filePath of the running (or last) carve run
    carvePc,         \* "idle", "jpg", "png" (whole-file loops), "read", "chunk"
                     \* (streaming loops), "done"
    offset,          \* let offset of the whole-file loops
    carveGlobal,     \* let globalOffset of carveMediaStreaming
    readPos,         \* const readPos of the current chunk
    chunkLen,        \* chunk.length (bytesRead) of the current chunk
    carvePos,        \* let pos inside the current chunk
    results,         \* const results of the running (or last) carve run
    carvedFiles,     \* storage.carvedFiles, in insertion order
    outDir,          \* output/carved: file name -> the bytes on disk (a Range)
    written,         \* history: for each stored record, the bytes of its match
    \* ---- one keywordSearch run over a tree ----
    searchFiles,     \* const files = collectFiles(dirPath), as file names
    searchQuery,     \* searchBuf (hex mode) or query (text mode), as bytes
    searchMode,      \* matchType
    searchCase,      \* caseSensitive
    fileIdx,         \* let i of the for loop over files
    searchPc,        \* "idle", "for", "whole", "read", "chunk", "done"
    runHits,         \* const hits of keywordSearch: <<file index, offset>> in push order
    chunkHits,       \* const hits of the running searchFileStreaming* call
    sOffset,         \* let offset of the whole-buffer loop
    sGlobalOffset,   \* let globalOffset of the streaming call
    sCarry,          \* let carry of the streaming call
    sReadStart,      \* const readStart of the current read
    sBytesRead,      \* const bytesRead of the current read
    sPos,            \* let pos of the inner loop
    \* ---- extractStrings: both branches on the same file ----
    strContent,      \* bytes of the file
    strMin,          \* minLength
    strChunk,        \* CHUNK_SIZE of the streaming branch
    wholeStrings,    \* results of the whole-file branch, or "pending" before it ran
    streamPc,        \* streaming branch: "loop" (at the while test), "after", "done"
    streamStrings,   \* const results of the streaming branch
    strGlobal,       \* let globalOffset
    strCurrent,      \* let current, as bytes
    strStart,        \* let startOffset
    \* ---- analyzeBBBackup ----
    allFiles,        \* const allFiles = collectFiles(dirPath), in walk order
    bbIdx,           \* let i of the for loop over allFiles
    bbPc,            \* "walk" (in the for loop), "done" (returned)
    remFiles,        \* const remFiles
    keyFiles,        \* const keyFiles
    totalArtifacts,  \* let totalArtifacts
    bbStats,         \* const stats, or NoResult before the walk ended
    \* ---- decryptRemFile ----
    remContent,      \* bytes of the .rem file at remPath
    remReadable,     \* fs.readFileSync(remPath) succeeds
    decKeys,         \* keyFiles, as file names
    decIdx,          \* number of key files the for loop is done with
    decPc,           \* "start", "keys" (in the for loop), "done" (returned)
    bestResult,      \* let bestResult
    decResult,       \* the value returned, PendingResult before the return
    attempts,        \* history: the scores of the transforms that ran, in order
    decPlain,        \* history: the plaintext the file was made from, or <<>>
    decKey,          \* history: the key file it was made with, or "none"
    \* ---- the job records of storage ----
    jobs,            \* storage.jobs in creation order, each with the position of its body
    \* ---- the signature registry ----
    signatures,      \* the enabled flag of each entry of const signatures, by name
    \* ---- callers of the signature registry ----
    sigCall,         \* the last PUT /api/carve/signatures/:name and its status, or NoResult
    sigReturned,     \* the array a caller holds from getSignatures, or <<>>
    \* ---- percentages passed to onProgress ----
    progRun,         \* the processor run followed: proc, pc, size and pos (the loop variable)
    progPct,         \* last percentage passed to the progress callback (the job's progress)
    \* ---- findDateArtifacts ----
    dateText,        \* const text = buffer.toString("utf-8", 0, maxSearch)
    datePc,          \* "idle", "unix" (first text loop), "unix13" (second), "done"
    dateLast,        \* lastIndex of the pattern of the running loop
    dateCount,       \* let unixCount / unix13Count
    dateArtifacts,   \* const artifacts
    \* ---- detectEncryption ----
    entInput,        \* the buffer handed to detectEncryption, by its make
    entFlagged,      \* "idle", "pending", then "yes" or "no": the value returned
    \* ---- POST /api/upload (media_scanner) ----
    clock,           \* Date.now()
    extractedDirs,   \* the stamps t of the directories output/extracted_t on disk
    uploadRuns       \* the jobs of the uploads, in order of arrival

scanVars == <<scanContent, scanNeedle, scanMode, scanCase, chunkSize, scanPc,
              globalOffset, carry, readStart, bytesRead, pos, hits,
              wholePc, wholeOffset, wholeHits>>

detectVars == <<tree, format>>

carveVars == <<uploads, carveFile, carvePc, offset, carveGlobal, readPos, chunkLen,
               carvePos, results, carvedFiles, outDir, written>>

searchVars == <<searchFiles, searchQuery, searchMode, searchCase, fileIdx, searchPc,
                runHits, chunkHits, sOffset, sGlobalOffset, sCarry, sReadStart,
                sBytesRead, sPos>>

stringsVars == <<strContent, strMin, strChunk, wholeStrings, streamPc, streamStrings,
                 strGlobal, strCurrent, strStart>>

analyzeVars == <<allFiles, bbIdx, bbPc, remFiles, keyFiles, totalArtifacts, bbStats>>

decryptVars == <<remContent, remReadable, decKeys, decIdx, decPc, bestResult, decResult, attempts, decPlain, decKey>>

jobVars == <<jobs>>

registryVars == <<signatures>>

sigApiVars == <<sigCall, sigReturned>>

progressVars == <<progRun, progPct>>

dateVars == <<dateText, datePc, dateLast, dateCount, dateArtifacts>>

entropyVars == <<entInput, entFlagged>>

uploadVars == <<clock, extractedDirs, uploadRuns>>

vars == <<scanVars, detectVars, carveVars, searchVars, stringsVars, analyzeVars, decryptVars, jobVars, registryVars, sigApiVars, progressVars, dateVars, entropyVars, uploadVars>>

----------------------------------------------------------------------------
(* Generic helpers *)

Min(a, b) == IF a < b THEN a ELSE b
Max(a, b) == IF a > b THEN a ELSE b

\* All sequences over S of length lo..hi
SeqsOf(S, lo, hi) == UNION {[1..n -> S] : n \in lo..hi}

\* n copies of byte b
Fill(b, n) == [i \in 1..n |-> b]

\* buf.subarray(from, to) / buf.slice(from, to), 0-based, end exclusive
Slice(buf, from, to) == SubSeq(buf, from + 1, to)

\* needle occurs in buf at 0-based index i
MatchAt(buf, needle, i) ==
    /\ i >= 0
    /\ i + Len(needle) <= Len(buf)
    /\ \A k \in 1..Len(needle) : buf[i + k] = needle[k]

\* Buffer.indexOf(needle, from) and String.indexOf(needle, from) for a
\* non-empty needle: the least index >= from where needle occurs, else -1
IndexOf(buf, needle, from) ==
    LET lo == Max(from, 0)
        hi == Len(buf) - Len(needle)
    IN IF \E i \in lo..hi : MatchAt(buf, needle, i)
       THEN CHOOSE i \in lo..hi :
                /\ MatchAt(buf, needle, i)
                /\ \A j \in lo..(i - 1) : ~MatchAt(buf, needle, j)
       ELSE -1

\* fs.readSync(fd, buf, 0, length, position): bytes delivered
ReadLen(content, length, position) ==
    Max(0, Min(length, Len(content) - position))

----------------------------------------------------------------------------
(* Backup format classifier (bbAnalyzer.ts) *)

NoResult == [type |-> "none"]

\* A walked file: the directory part and the basename of its relative path,
\* its bytes, and whether openSync succeeds on it
File(dir, base, bytes, readable) ==
    [dir |-> dir, base |-> base, bytes |-> bytes, readable |-> readable]

QNX_TAR_MAGIC == <<81, 78, 88, 0>>
PER_TAR_MAGIC == <<80, 69, 82, 0>>

\* path.basename(f).toLowerCase() on the basenames of the model
BaseLower(f) ==
    CASE f.base = "Manifest.xml" -> "manifest.xml"
      [] f.base = "PkgInfo" -> "pkginfo"
      [] OTHER -> f.base

\* String.endsWith on the basenames of the model
EndsWith(name, suffix) ==
    CASE suffix = ".tar" -> name \in {"media.tar"}
      [] suffix = ".ipd" -> name \in {"backup.ipd"}
      [] suffix = ".dat" -> name \in {"db.dat"}
      [] suffix = ".rem" -> name \in {"msg.rem"}
      [] OTHER -> FALSE

\* f.toLowerCase().includes("archive/") on the relative path
InArchiveDir(f) == f.dir = "Archive"

\* number of files of a list that satisfy P
CountFiles(files, P(_)) == Cardinality({i \in 1..Len(files) : P(files[i])})

\* path.relative(dirPath, f)
RelPath(f) == [dir |-> f.dir, base |-> f.base]
RelPaths(files) == [i \in 1..Len(files) |-> RelPath(files[i])]

\* Buffer.alloc(4) followed by readSync(fd, buf, 0, 4, 0): bytes that the file
\* does not have stay zero
Head4(f) == [i \in 1..4 |-> IF i <= Len(f.bytes) THEN f.bytes[i] ELSE 0]

hasManifest(files) == \E i \in 1..Len(files) : BaseLower(files[i]) = "manifest.xml"
hasPkgInfo(files) == \E i \in 1..Len(files) : BaseLower(files[i]) = "pkginfo"
hasArchiveDir(files) == \E i \in 1..Len(files) : InArchiveDir(files[i])
IsTar(f) == EndsWith(BaseLower(f), ".tar")
IsIpd(f) == EndsWith(BaseLower(f), ".ipd")
IsDat(f) == EndsWith(BaseLower(f), ".dat")
IsRem(f) == EndsWith(BaseLower(f), ".rem")
hasTarFiles(files) == CountFiles(files, IsTar)
hasIpd(files) == \E i \in 1..Len(files) : IsIpd(files[i])
hasDatFiles(files) == CountFiles(files, IsDat)
hasRemFiles(files) == CountFiles(files, IsRem)

\* relFiles.filter(f => f.endsWith(".tar"))
RECURSIVE TarRelFiles(_)
TarRelFiles(files) ==
    IF files = <<>> THEN <<>>
    ELSE (IF EndsWith(Head(files).base, ".tar") THEN <<RelPath(Head(files))>> ELSE <<>>)
             \o TarRelFiles(Tail(files))

Format(type, confidence, manifestFound, pkgInfoFound, archiveFiles) ==
    [type |-> type, confidence |-> confidence, manifestFound |-> manifestFound,
     pkgInfoFound |-> pkgInfoFound, archiveFiles |-> archiveFiles]

\* The file at which the magic loop returns: readable (no exception) and
\* its 4-byte buffer equals one of the two magics
MagicHit(f) == f.readable /\ (Head4(f) = QNX_TAR_MAGIC \/ Head4(f) = PER_TAR_MAGIC)

\* The directory-shape rules that follow the magic loop
ShapeRules(files) ==
    IF hasPkgInfo(files) /\ hasManifest(files)
         /\ (hasArchiveDir(files) \/ hasTarFiles(files) > 0)
    THEN Format("BB10_BBB", 90, TRUE, TRUE, TarRelFiles(files))
    ELSE IF hasManifest(files) /\ hasDatFiles(files) > 3 /\ ~hasPkgInfo(files)
    THEN Format("BBBv2_Windows", 85, TRUE, FALSE, <<>>)
    ELSE IF hasIpd(files)
    THEN Format("IPD", 90, FALSE, FALSE, <<>>)
    ELSE IF hasRemFiles(files) > 0 /\ hasDatFiles(files) > 0
    THEN Format("BBBv1_Mac", 70, hasManifest(files), FALSE, <<>>)
    ELSE Format("Unknown", 30, hasManifest(files), hasPkgInfo(files), <<>>)

detectBackupFormat(files) ==
    IF \E i \in 1..Len(files) : MagicHit(files[i])
    THEN LET i == CHOOSE k \in 1..Len(files) :
                      MagicHit(files[k]) /\ \A j \in 1..(k - 1) : ~MagicHit(files[j])
         IN IF Head4(files[i]) = QNX_TAR_MAGIC
            THEN Format("BB10_TAR_QNX", 95, hasManifest(files), hasPkgInfo(files),
                        TarRelFiles(files))
            ELSE Format("BB10_TAR_PER", 95, hasManifest(files), hasPkgInfo(files),
                        TarRelFiles(files))
    ELSE ShapeRules(files)

\* Bytes of a file that carries none of the magics
PlainBytes == <<1, 2, 3, 4, 5>>

\* The files a tree of the model is made of
TreeFiles ==
    { File("", "Manifest.xml", PlainBytes, TRUE),
      File("", "PkgInfo", PlainBytes, TRUE),
      File("", "media.tar", PlainBytes, TRUE),
      File("Archive", "notes.txt", PlainBytes, TRUE),
      File("", "db.dat", PlainBytes, TRUE),
      File("", "msg.rem", PlainBytes, TRUE),
      File("", "backup.ipd", PlainBytes, TRUE),
      File("", "qnx.bin", QNX_TAR_MAGIC \o <<7>>, TRUE),
      File("", "per.bin", PER_TAR_MAGIC, TRUE),
      File("", "short.bin", <<81, 78, 88>>, TRUE),
      File("", "locked.bin", QNX_TAR_MAGIC, FALSE) }

MaxTreeFiles == 5

Trees == SeqsOf(TreeFiles, 0, MaxTreeFiles)

\* The state of an entry point that is not called in a run
DetectIdle == tree = <<>> /\ format = NoResult

ScanIdle ==
    /\ scanContent = <<>> /\ scanNeedle = <<>> /\ scanMode = "hex" /\ scanCase = TRUE
    /\ chunkSize = 0 /\ scanPc = "done" /\ globalOffset = 0 /\ carry = 0
    /\ readStart = 0 /\ bytesRead = 0 /\ pos = 0 /\ hits = <<>>
    /\ wholePc = "done" /\ wholeOffset = 0 /\ wholeHits = <<>>

CarveIdle ==
    /\ uploads = <<>> /\ carveFile = <<>> /\ carvePc = "idle" /\ offset = 0
    /\ carveGlobal = 0 /\ readPos = 0 /\ chunkLen = 0 /\ carvePos = 0
    /\ results = <<>> /\ carvedFiles = <<>> /\ outDir = <<>> /\ written = <<>>

SearchIdle ==
    /\ searchFiles = <<>> /\ searchQuery = <<>> /\ searchMode = "hex" /\ searchCase = TRUE
    /\ fileIdx = 0 /\ searchPc = "idle" /\ runHits = <<>> /\ chunkHits = <<>>
    /\ sOffset = 0 /\ sGlobalOffset = 0 /\ sCarry = 0 /\ sReadStart = 0
    /\ sBytesRead = 0 /\ sPos = 0

StringsIdle ==
    /\ strContent = <<>> /\ strMin = 0 /\ strChunk = 0 /\ wholeStrings = <<>>
    /\ streamPc = "done" /\ streamStrings = <<>> /\ strGlobal = 0
    /\ strCurrent = <<>> /\ strStart = 0

AnalyzeIdle ==
    /\ allFiles = <<>> /\ bbIdx = 0 /\ bbPc = "done" /\ remFiles = <<>>
    /\ keyFiles = <<>> /\ totalArtifacts = 0 /\ bbStats = NoResult

DecryptIdle ==
    /\ remContent = <<>> /\ remReadable = FALSE /\ decKeys = <<>> /\ decIdx = 0
    /\ decPc = "done" /\ bestResult = [type |-> "none"] /\ decResult = [type |-> "none"]
    /\ attempts = <<>> /\ decPlain = <<>> /\ decKey = "none"

JobsIdle == jobs = <<>>

\* The names of the registry entries
SIG_NAMES ==
    {"JPEG", "PNG", "PDF", "ZIP", "GIF87a", "GIF89a", "BMP", "TIFF (LE)", "TIFF (BE)",
     "SQLite"}

\* The enabled flags of the registry as the module is loaded
DefaultSignatures ==
    [n \in SIG_NAMES |-> n \notin {"TIFF (LE)", "TIFF (BE)", "SQLite"}]

\* The registry when no request has changed it
RegistryIdle == signatures = DefaultSignatures

SignaturesIdle == sigCall = NoResult /\ sigReturned = <<>>

\* No processor run whose percentages are followed
NoRun == [proc |-> "none", pc |-> "idle", size |-> 0, pos |-> 0]

ProgressIdle == progRun = NoRun /\ progPct = 0

DateIdle ==
    /\ dateText = <<>>
    /\ datePc = "idle"
    /\ dateLast = 0
    /\ dateCount = 0
    /\ dateArtifacts = <<>>

\* No buffer handed to detectEncryption
NoBuffer == [values |-> 1, len |-> 0, tail |-> "none"]

EntropyIdle == entInput = NoBuffer /\ entFlagged = "idle"

UploadIdle == clock = 0 /\ extractedDirs = {} /\ uploadRuns = <<>>

DetectInit ==
    /\ ScanIdle
    /\ CarveIdle
    /\ SearchIdle
    /\ StringsIdle
    /\ AnalyzeIdle
    /\ DecryptIdle
    /\ JobsIdle
    /\ RegistryIdle
    /\ SignaturesIdle
    /\ ProgressIdle
    /\ DateIdle
    /\ EntropyIdle
    /\ UploadIdle
    /\ tree \in Trees
    /\ format = NoResult

DetectBackupFormat ==
    /\ format = NoResult
    /\ format' = detectBackupFormat(tree)
    /\ UNCHANGED tree

----------------------------------------------------------------------------
(* Media carver (processors.ts: carveMedia, carveMediaStreaming) *)

JPG_HEADER == <<255, 216, 255>>
JPG_FOOTER == <<255, 217>>
PNG_HEADER == <<137, 80, 78, 71, 13, 10, 26, 10>>
PNG_FOOTER == <<73, 69, 78, 68, 174, 66, 96, 130>>

\* sz > 100: smaller matches are discarded
MIN_CARVE_SIZE == 100
\* results.length > 500 (whole-file loops), results.length < 200 (streaming)
CARVE_CAP_WHOLE == 500
CARVE_CAP_STREAM == 200

\* Sizes of the source scaled down, their order kept:
\*   100 < OVERLAP < CHUNK_SIZE < CHUNK_SIZE + OVERLAP < 50 MiB < MAX_FILE_SIZE_SYNC
\* MAX_FILE_SIZE_SYNC: 512 MiB in the source
MAX_FILE_SIZE_SYNC == 51200
\* sz < 50 * 1024 * 1024 in the source
MAX_CARVE_SIZE == 400
\* CHUNK_SIZE of carveMediaStreaming: 32 MiB in the source
CARVE_CHUNK_SIZE == 256
\* OVERLAP of carveMediaStreaming: 64 KiB in the source
CARVE_OVERLAP == 128

\* checkFileSize(filePath).ok
SizeOk(content) == Len(content) <= MAX_FILE_SIZE_SYNC

\* The variant with the upper test turned round
AcceptOverMax(sz) == sz > MIN_CARVE_SIZE /\ sz > MAX_CARVE_SIZE

\* sz > 100 && sz < 50 * 1024 * 1024 (whole-file loops)
AcceptWhole(sz) == sz > MIN_CARVE_SIZE /\ sz < MAX_CARVE_SIZE

\* endIdx !== -1 && endIdx - pos < 50 * 1024 * 1024 (streaming loop)
FooterInReach(endIdx, p) == endIdx # -1 /\ endIdx - p < MAX_CARVE_SIZE

\* sz > 100 (streaming loop)
AcceptStream(sz) == sz > MIN_CARVE_SIZE

\* chunk.indexOf(needle, from) with chunk = the bytes [rp, rp + n) of content:
\* the index inside the chunk, or -1
ChunkIndexOf(content, rp, n, needle, from) ==
    LET lo == rp + Max(from, 0)
        hi == rp + n - Len(needle)
    IN IF \E i \in lo..hi : MatchAt(content, needle, i)
       THEN (CHOOSE i \in lo..hi :
                 /\ MatchAt(content, needle, i)
                 /\ \A j \in lo..(i - 1) : ~MatchAt(content, needle, j)) - rp
       ELSE -1

\* `carved_${offset.toString(16)}.${ext}`
CarvedName(type, off) == <<"carved", off, type>>

\* Files on disk, named by what they are made of: a list of the pieces below
Piece(t) ==
    CASE t = "JH" -> JPG_HEADER
      [] t = "JF" -> JPG_FOOTER
      [] t = "PH" -> PNG_HEADER
      [] t = "PF" -> PNG_FOOTER
      [] t = "z95" -> Fill(0, 95)
      [] t = "z96" -> Fill(0, 96)
      [] t = "z84" -> Fill(0, 84)
      [] t = "z85" -> Fill(0, 85)
      [] t = "GH" -> <<71, 73, 70, 56, 55, 97>>
      [] t = "GF" -> <<59>>

RECURSIVE Flatten(_)
Flatten(ts) == IF ts = <<>> THEN <<>> ELSE Piece(Head(ts)) \o Flatten(Tail(ts))

\* One 101-byte JPEG (3 + 96 + 2) and one 101-byte PNG (8 + 85 + 8)
Jpeg101 == JPG_HEADER \o Fill(0, 96) \o JPG_FOOTER
Png101 == PNG_HEADER \o Fill(0, 85) \o PNG_FOOTER

\* n copies of rec back to back
Repeat(rec, n) ==
    [i \in 1..(Len(rec) * n) |-> rec[((i - 1) % Len(rec)) + 1]]

\* More JPEGs than the cap of the whole-file loops, and one PNG, in a file
\* small enough for the whole-file path
ManyJpegsFile == Repeat(Jpeg101, CARVE_CAP_WHOLE + 1) \o Png101

\* A 64-byte JPEG (3 + 59 + 2): a match below the minimum size
Jpeg64 == JPG_HEADER \o Fill(0, 59) \o JPG_FOOTER

\* A 128-byte JPEG (3 + 123 + 2)
Jpeg128 == JPG_HEADER \o Fill(0, 123) \o JPG_FOOTER

\* 64-byte JPEGs back to back, enough to lift a file over MAX_FILE_SIZE_SYNC
StreamPad == Repeat(Jpeg64, MAX_FILE_SIZE_SYNC \div 64) \o Jpeg64

\* Streaming path: a JPEG that lies entirely in the overlap of the first two reads
OverlapJpegFile ==
    Fill(0, CARVE_CHUNK_SIZE + 14) \o Jpeg101 \o Fill(0, 13) \o StreamPad

\* Streaming path: a JPEG whose footer lies behind the end of the read that
\* holds its header (size 302, below MAX_CARVE_SIZE)
SplitJpegFile ==
    Fill(0, 200) \o JPG_HEADER \o Fill(0, 297) \o JPG_FOOTER \o Fill(0, 10) \o StreamPad

\* Streaming path: a JPEG and a PNG inside the first read
PlainStreamFile ==
    Fill(0, 10) \o Jpeg101 \o Png101 \o Fill(0, 44) \o StreamPad

\* Streaming path: as PlainStreamFile, with other bytes at the same offsets
PlainStreamFile2 ==
    Fill(0, 10) \o JPG_HEADER \o Fill(7, 96) \o JPG_FOOTER \o Png101 \o Fill(0, 44) \o StreamPad

\* Streaming path: more JPEGs than the cap of the streaming loop
ManyJpegsStreamFile == Repeat(Jpeg128, MAX_FILE_SIZE_SYNC \div 128) \o Jpeg128

\* Whole-file path: one JPEG whose size is not under MAX_CARVE_SIZE
WideJpegFile == JPG_HEADER \o Fill(0, MAX_CARVE_SIZE) \o JPG_FOOTER

BigPieces == {"manyJpegs", "overlapJpeg", "splitJpeg", "plainStream", "plainStream2",
              "manyJpegsStream", "wideJpeg"}

BigPiece(t) ==
    CASE t = "manyJpegs" -> ManyJpegsFile
      [] t = "overlapJpeg" -> OverlapJpegFile
      [] t = "splitJpeg" -> SplitJpegFile
      [] t = "plainStream" -> PlainStreamFile
      [] t = "plainStream2" -> PlainStreamFile2
      [] t = "manyJpegsStream" -> ManyJpegsStreamFile
      [] t = "wideJpeg" -> WideJpegFile

\* fs.readFileSync(filePath) / the bytes readSync reads from
Content(f) ==
    IF Len(f) = 1 /\ f[1] \in BigPieces THEN BigPiece(f[1]) ELSE Flatten(f)

MaxPieces == 4

JpegPieces == {"JH", "JF", "z95", "z96"}
PngPieces == {"PH", "PF", "z84", "z85"}

SmallFiles == SeqsOf(JpegPieces, 0, MaxPieces) \cup SeqsOf(PngPieces, 1, MaxPieces)

\* Files carved one after the other while the server runs
RunPairs ==
    { <<a, b>> : a, b \in { <<"JH", "z96", "JF">>, <<"JH", "JH", "z96", "JF">>,
                            <<"PH", "z85", "PF">> } }
        \cup { <<a, b>> : a, b \in { <<"plainStream">>, <<"plainStream2">> } }

\* One JPEG (197 bytes) followed by one PNG
JpegThenPng == <<"JH", "z96", "z96", "JF", "PH", "z85", "PF">>

\* One JPEG (197 bytes) between other bytes
PaddedJpeg == <<"z95", "JH", "z96", "z96", "JF", "z85">>

CarveUploads ==
    {<<f>> : f \in SmallFiles \cup {<<b>> : b \in BigPieces} \cup {JpegThenPng, PaddedJpeg}}
        \cup RunPairs

CarveInit ==
    /\ ScanIdle
    /\ DetectIdle
    /\ SearchIdle
    /\ StringsIdle
    /\ AnalyzeIdle
    /\ DecryptIdle
    /\ JobsIdle
    /\ RegistryIdle
    /\ SignaturesIdle
    /\ ProgressIdle
    /\ DateIdle
    /\ EntropyIdle
    /\ UploadIdle
    /\ uploads \in CarveUploads
    /\ carveFile = <<>>
    /\ carvePc = "idle"
    /\ offset = 0
    /\ carveGlobal = 0
    /\ readPos = 0
    /\ chunkLen = 0
    /\ carvePos = 0
    /\ results = <<>>
    /\ carvedFiles = <<>>
    /\ outDir = <<>>
    /\ written = <<>>

\* The bytes content.slice(from, to) of a file, kept as the range they were
\* taken from
Range(f, from, to) == [src |-> f, from |-> from, to |-> to]
BytesOf(r) == Slice(Content(r.src), r.from, r.to)

\* fs.writeFileSync(path.join(outDir, fname), content.slice(off, end)) and
\* results.push(storage.addCarvedFile({type, offset, size, filename}))
Emit(type, off, end) ==
    LET rec == [id |-> Len(carvedFiles) + 1, type |-> type, offset |-> off,
                size |-> end - off, filename |-> CarvedName(type, off)]
    IN /\ outDir' = (CarvedName(type, off) :> Range(carveFile, off, end)) @@ outDir
       /\ carvedFiles' = Append(carvedFiles, rec)
       /\ results' = Append(results, rec)
       /\ written' = Append(written, Range(carveFile, off, end))

NoEmit == UNCHANGED <<results, carvedFiles, outDir, written>>

\* POST /api/carve: the upload is moved to uploads/carve and carveMedia is
\* entered; checkFileSize selects the whole-file or the streaming path
CarveStart ==
    /\ carvePc \in {"idle", "done"}
    /\ uploads # <<>>
    /\ carveFile' = Head(uploads)
    /\ uploads' = Tail(uploads)
    /\ results' = <<>>
    /\ carvePc' = IF SizeOk(Content(Head(uploads))) THEN "jpg" ELSE "read"
    /\ offset' = 0
    /\ carveGlobal' = 0
    /\ UNCHANGED <<readPos, chunkLen, carvePos, carvedFiles, outDir, written>>

\* One iteration of the JPG loop of carveMedia (with its while test); when
\* the loop is left the PNG loop starts at offset 0
JpgStep ==
    /\ carvePc = "jpg"
    /\ LET content == Content(carveFile)
       IN IF offset < Len(content) - 3
          THEN IF MatchAt(content, JPG_HEADER, offset)
               THEN LET e == IndexOf(content, JPG_FOOTER, offset + 3)
                        end == e + 2
                    IN IF e # -1
                       THEN /\ IF AcceptWhole(end - offset)
                               THEN Emit("jpg", offset, end)
                               ELSE NoEmit
                            /\ IF Len(results') > CARVE_CAP_WHOLE
                               THEN carvePc' = "png" /\ offset' = 0
                               ELSE carvePc' = "jpg" /\ offset' = end
                       ELSE /\ NoEmit
                            /\ IF Len(results) > CARVE_CAP_WHOLE
                               THEN carvePc' = "png" /\ offset' = 0
                               ELSE carvePc' = "jpg" /\ offset' = offset + 1
               ELSE /\ NoEmit
                    /\ IF Len(results) > CARVE_CAP_WHOLE
                       THEN carvePc' = "png" /\ offset' = 0
                       ELSE carvePc' = "jpg" /\ offset' = offset + 1
          ELSE /\ NoEmit
               /\ carvePc' = "png"
               /\ offset' = 0
    /\ UNCHANGED <<uploads, carveFile, carveGlobal, readPos, chunkLen, carvePos>>

\* One iteration of the PNG loop of carveMedia (with its while test); when
\* the loop is left carveMedia returns
PngStep ==
    /\ carvePc = "png"
    /\ LET content == Content(carveFile)
           match == IndexOf(content, PNG_HEADER, offset)
           e == IndexOf(content, PNG_FOOTER, match + 8)
           fullEnd == e + 8
       IN IF offset < Len(content) - 8 /\ match # -1
          THEN IF e # -1
               THEN /\ IF AcceptWhole(fullEnd - match)
                       THEN Emit("png", match, fullEnd)
                       ELSE NoEmit
                    /\ offset' = fullEnd
                    /\ carvePc' = IF Len(results') > CARVE_CAP_WHOLE THEN "done" ELSE "png"
               ELSE /\ NoEmit
                    /\ offset' = match + 1
                    /\ carvePc' = IF Len(results) > CARVE_CAP_WHOLE THEN "done" ELSE "png"
          ELSE /\ NoEmit
               /\ carvePc' = "done"
               /\ UNCHANGED offset
    /\ UNCHANGED <<uploads, carveFile, carveGlobal, readPos, chunkLen, carvePos>>

\* carveMediaStreaming: the outer while test and the read of one chunk
StreamRead ==
    /\ carvePc = "read"
    /\ LET content == Content(carveFile)
           rp == Max(0, carveGlobal)
           n == ReadLen(content, CARVE_CHUNK_SIZE + CARVE_OVERLAP, rp)
       IN IF carveGlobal < Len(content) /\ Len(results) < CARVE_CAP_STREAM /\ n # 0
          THEN /\ readPos' = rp
               /\ chunkLen' = n
               /\ carvePos' = 0
               /\ carvePc' = "chunk"
          ELSE /\ carvePc' = "done"
               /\ UNCHANGED <<readPos, chunkLen, carvePos>>
    /\ NoEmit
    /\ UNCHANGED <<uploads, carveFile, offset, carveGlobal>>

\* carveMediaStreaming: one iteration of the inner loop over the chunk (with
\* its while test); when the loop is left globalOffset += CHUNK_SIZE
StreamStep ==
    /\ carvePc = "chunk"
    /\ LET content == Content(carveFile)
           abs == readPos + carvePos
           jEnd == ChunkIndexOf(content, readPos, chunkLen, JPG_FOOTER, carvePos + 3)
           pEnd == ChunkIndexOf(content, readPos, chunkLen, PNG_FOOTER, carvePos + 8)
       IN IF carvePos < chunkLen - 3 /\ Len(results) < CARVE_CAP_STREAM
          THEN /\ IF MatchAt(content, JPG_HEADER, abs) /\ FooterInReach(jEnd, carvePos)
                  THEN /\ IF AcceptStream(jEnd + 2 - carvePos)
                          THEN Emit("jpg", abs, readPos + jEnd + 2)
                          ELSE NoEmit
                       /\ carvePos' = jEnd + 2
                  ELSE IF /\ carvePos < chunkLen - 8
                          /\ MatchAt(content, PNG_HEADER, abs)
                          /\ FooterInReach(pEnd, carvePos)
                  THEN /\ IF AcceptStream(pEnd + 8 - carvePos)
                          THEN Emit("png", abs, readPos + pEnd + 8)
                          ELSE NoEmit
                       /\ carvePos' = pEnd + 8
                  ELSE /\ NoEmit
                       /\ carvePos' = carvePos + 1
               /\ UNCHANGED <<carveGlobal, carvePc>>
          ELSE /\ NoEmit
               /\ carveGlobal' = carveGlobal + CARVE_CHUNK_SIZE
               /\ carvePc' = "read"
               /\ UNCHANGED carvePos
    /\ UNCHANGED <<uploads, carveFile, offset, readPos, chunkLen>>

----------------------------------------------------------------------------
(* Keyword / hex search *)

\* String.prototype.toLowerCase on one ASCII code unit
LowerByte(b) == IF b >= 65 /\ b <= 90 THEN b + 32 ELSE b
ToLowerCase(s) == [i \in 1..Len(s) |-> LowerByte(s[i])]

\* per-file hit cap of the streaming scans (hits.length < 50)
STREAM_HIT_CAP == 50
\* per-run hit cap of keywordSearch (hits.length > 500)
SEARCH_HIT_CAP == 500

\* const overlap = searchBuf.length - 1 / query.length - 1
Overlap(needle) == Len(needle) - 1

\* Model bounds of the scanner's inputs
MaxScanLen == 4
MaxNeedleLen == 2
MaxChunk == 3
ScanAlphabet == {65, 97}

\* A file holding more occurrences than the per-file cap of the streaming scan
ManyHitsFile == Fill(97, STREAM_HIT_CAP + 1)

ScanContents == SeqsOf(ScanAlphabet, 0, MaxScanLen) \cup {ManyHitsFile}
ScanNeedles == SeqsOf(ScanAlphabet, 1, MaxNeedleLen)

ScanInit ==
    /\ DetectIdle
    /\ CarveIdle
    /\ SearchIdle
    /\ StringsIdle
    /\ AnalyzeIdle
    /\ DecryptIdle
    /\ JobsIdle
    /\ RegistryIdle
    /\ SignaturesIdle
    /\ ProgressIdle
    /\ DateIdle
    /\ EntropyIdle
    /\ UploadIdle
    /\ scanContent \in ScanContents
    /\ scanNeedle \in ScanNeedles
    /\ scanMode \in {"hex", "text"}
    /\ scanCase \in BOOLEAN
    /\ (scanMode = "hex" => scanCase = TRUE)
    /\ chunkSize \in MaxNeedleLen..MaxChunk
    /\ scanPc = "loop"
    /\ globalOffset = 0
    /\ carry = 0
    /\ readStart = 0
    /\ bytesRead = 0
    /\ pos = 0
    /\ hits = <<>>
    /\ wholePc = "todo"
    /\ wholeOffset = 0
    /\ wholeHits = <<>>

\* (the two scans of a file run one after the other, the whole-buffer one first)
\* The outer while test, readStart and the read of one iteration of the loop
\* of searchFileStreamingHex / searchFileStreamingText; let pos = carry
ScanRead ==
    /\ wholePc = "done"
    /\ scanPc = "loop"
    /\ IF globalOffset < Len(scanContent) /\ Len(hits) < STREAM_HIT_CAP
       THEN LET rs == Max(0, globalOffset - carry)
                n == ReadLen(scanContent, chunkSize + Overlap(scanNeedle), rs)
            IN /\ readStart' = rs
               /\ bytesRead' = n
               /\ pos' = carry
               /\ scanPc' = IF n = 0 THEN "done" ELSE "scan"
       ELSE /\ scanPc' = "done"
            /\ UNCHANGED <<readStart, bytesRead, pos>>
    /\ UNCHANGED <<scanContent, scanNeedle, scanMode, scanCase, chunkSize,
                   globalOffset, carry, hits, wholePc, wholeOffset, wholeHits>>

\* The test of the inner while loop: hex scans while a whole needle still
\* fits after pos, text scans while pos is inside the text
InnerTest(chunk) ==
    /\ Len(hits) < STREAM_HIT_CAP
    /\ IF scanMode = "hex"
       THEN pos < Len(chunk) - Len(scanNeedle) + 1
       ELSE pos < Len(chunk)

\* One iteration of the inner while loop over the chunk; when the loop is
\* left, globalOffset and carry are advanced and the outer loop resumes
ScanChunk ==
    /\ scanPc = "scan"
    /\ LET chunk == Slice(scanContent, readStart, readStart + bytesRead)
           searchStr == IF scanMode = "hex" \/ scanCase THEN scanNeedle
                        ELSE ToLowerCase(scanNeedle)
           searchText == IF scanMode = "hex" \/ scanCase THEN chunk
                         ELSE ToLowerCase(chunk)
           idx == IndexOf(searchText, searchStr, pos)
       IN IF InnerTest(chunk) /\ idx # -1
          THEN /\ hits' = Append(hits, readStart + idx)
               /\ pos' = idx + 1
               /\ UNCHANGED <<globalOffset, carry, scanPc>>
          ELSE /\ globalOffset' = readStart + bytesRead - Overlap(scanNeedle)
               /\ carry' = Overlap(scanNeedle)
               /\ scanPc' = "loop"
               /\ UNCHANGED <<hits, pos>>
    /\ UNCHANGED <<scanContent, scanNeedle, scanMode, scanCase, chunkSize,
                   readStart, bytesRead, wholePc, wholeOffset, wholeHits>>

\* One iteration of the while (true) loop of the whole-buffer branch of
\* keywordSearch on the same file (hex: content.indexOf, text: searchText.indexOf)
WholeScan ==
    /\ wholePc = "todo"
    /\ LET searchStr == IF scanMode = "hex" \/ scanCase THEN scanNeedle
                        ELSE ToLowerCase(scanNeedle)
           searchText == IF scanMode = "hex" \/ scanCase THEN scanContent
                         ELSE ToLowerCase(scanContent)
           idx == IndexOf(searchText, searchStr, wholeOffset)
       IN IF idx = -1
          THEN /\ wholePc' = "done"
               /\ UNCHANGED <<wholeHits, wholeOffset>>
          ELSE /\ wholeHits' = Append(wholeHits, idx)
               /\ wholeOffset' = idx + 1
               /\ wholePc' = IF Len(wholeHits) + 1 > SEARCH_HIT_CAP THEN "done" ELSE "todo"
    /\ UNCHANGED <<scanContent, scanNeedle, scanMode, scanCase, chunkSize, scanPc,
                   globalOffset, carry, readStart, bytesRead, pos, hits>>

ScanNext == (ScanRead \/ ScanChunk \/ WholeScan) /\ UNCHANGED <<detectVars, carveVars, searchVars, stringsVars, analyzeVars, decryptVars, jobVars, registryVars, sigApiVars, progressVars, dateVars, entropyVars, uploadVars>>

SpecScan == ScanInit /\ [][ScanNext]_vars

\* The streaming loop is sequential code: a started iteration always proceeds
SpecScanFair == ScanInit /\ [][ScanNext]_vars /\ WF_vars(ScanNext)

----------------------------------------------------------------------------
(* C1: when both scans of a file have returned, the chunked scan has       *)
(* reported exactly the ascending offsets the whole-buffer scan reported.  *)
C1_ChunkedEqualsWhole ==
    (scanMode = "hex" /\ scanPc = "done" /\ wholePc = "done") => hits = wholeHits

(* C2: the chunked scan loop terminates for every file and every query of  *)
(* length >= 1.                                                            *)
C2_ScanTerminates == <>(scanPc = "done")

----------------------------------------------------------------------------
(* Specification of the classifier *)

\* (the scanner, the classifier and the carver are separate entry points)
DetectNext == DetectBackupFormat /\ UNCHANGED <<scanVars, carveVars, searchVars, stringsVars, analyzeVars, decryptVars, jobVars, registryVars, sigApiVars, progressVars, dateVars, entropyVars, uploadVars>>

SpecDetect == DetectInit /\ [][DetectNext]_vars

\* Some readable file of the tree is at least 4 bytes long and begins with magic
StartsWith(f, magic) == Len(f.bytes) >= 4 /\ SubSeq(f.bytes, 1, 4) = magic
SomeFileStartsWith(magic) ==
    \E i \in 1..Len(tree) : tree[i].readable /\ StartsWith(tree[i], magic)

(* C3: a tree in which some file's first 4 bytes are 51 4E 58 00 is        *)
(* classified BB10_TAR_QNX with confidence 95, whatever else it holds and  *)
(* in whatever order the walk lists the files.                             *)
C3_QnxAlwaysWins ==
    (format # NoResult /\ SomeFileStartsWith(QNX_TAR_MAGIC))
        => (format.type = "BB10_TAR_QNX" /\ format.confidence = 95)

\* The type and confidence the numbered rules 3..7 of the classifier give
RuleOutcome ==
    IF hasPkgInfo(tree) /\ hasManifest(tree) /\ (hasArchiveDir(tree) \/ hasTarFiles(tree) >= 1)
    THEN <<"BB10_BBB", 90>>
    ELSE IF hasManifest(tree) /\ hasDatFiles(tree) > 3 /\ ~hasPkgInfo(tree)
    THEN <<"BBBv2_Windows", 85>>
    ELSE IF hasIpd(tree) THEN <<"IPD", 90>>
    ELSE IF hasRemFiles(tree) >= 1 /\ hasDatFiles(tree) >= 1 THEN <<"BBBv1_Mac", 70>>
    ELSE <<"Unknown", 30>>

(* C4: in a tree where no file starts with the QNX or the PER magic the    *)
(* result is that of the lowest-numbered directory-shape rule that holds.  *)
C4_ShapeRuleOrder ==
    (format # NoResult
       /\ \A i \in 1..Len(tree) : ~StartsWith(tree[i], QNX_TAR_MAGIC)
                                  /\ ~StartsWith(tree[i], PER_TAR_MAGIC))
        => <<format.type, format.confidence>> = RuleOutcome

(* C5: whichever rule fires, manifestFound, pkgInfoFound and archiveFiles  *)
(* report the Manifest.xml, PkgInfo and .tar files the tree really holds.  *)
C5_EvidenceCarried ==
    format # NoResult
        => /\ format.manifestFound = hasManifest(tree)
           /\ format.pkgInfoFound = hasPkgInfo(tree)
           /\ format.archiveFiles = TarRelFiles(tree)

----------------------------------------------------------------------------
(* Specification of the carver *)

CarveNext ==
    (CarveStart \/ JpgStep \/ PngStep \/ StreamRead \/ StreamStep)
        /\ UNCHANGED <<scanVars, detectVars, searchVars, stringsVars, analyzeVars, decryptVars, jobVars, registryVars, sigApiVars, progressVars, dateVars, entropyVars, uploadVars>>

SpecCarve == CarveInit /\ [][CarveNext]_vars

CarveSigs == {"jpg", "png"}
Header(t) == IF t = "jpg" THEN JPG_HEADER ELSE PNG_HEADER
Footer(t) == IF t = "jpg" THEN JPG_FOOTER ELSE PNG_FOOTER

\* The offset behind the first footer of signature t after the header at h, or -1
MatchEnd(content, t, h) ==
    LET e == IndexOf(content, Footer(t), h + Len(Header(t)))
    IN IF e = -1 THEN -1 ELSE e + Len(Footer(t))

\* The run has an artifact of type t at offset h with size sz
Emitted(t, h, sz) ==
    \E i \in 1..Len(results) :
        results[i].type = t /\ results[i].offset = h /\ results[i].size = sz

\* A header of signature t at h whose first footer closes a match of accepted size
Carvable(content, t, h) ==
    /\ MatchAt(content, Header(t), h)
    /\ MatchEnd(content, t, h) # -1
    /\ AcceptWhole(MatchEnd(content, t, h) - h)

WholeRunDone == carvePc = "done" /\ SizeOk(Content(carveFile))
StreamRunDone == carvePc = "done" /\ ~SizeOk(Content(carveFile))

\* C6: when a whole-file run that did not stop at the cap has returned, every
\* header followed by its footer at an accepted size (above 100 bytes, below
\* the maximum) has an artifact at the header's offset running through the
\* last footer byte, wherever the header lies.
C6_EveryHeaderCarved ==
    (WholeRunDone /\ Len(results) <= CARVE_CAP_WHOLE) =>
        LET content == Content(carveFile)
        IN \A t \in CarveSigs : \A h \in 0..(Len(content) - 1) :
               Carvable(content, t, h) => Emitted(t, h, MatchEnd(content, t, h) - h)

\* C7: when a streaming run that did not stop at the cap has returned, every
\* header whose footer lies in a later chunk, at an accepted size, has its
\* artifact.
C7_FooterInLaterChunk ==
    (StreamRunDone /\ Len(results) < CARVE_CAP_STREAM) =>
        LET content == Content(carveFile)
        IN \A t \in CarveSigs : \A h \in 0..(Len(content) - 1) :
               ( /\ Carvable(content, t, h)
                 /\ h \div CARVE_CHUNK_SIZE
                        < (MatchEnd(content, t, h) - 1) \div CARVE_CHUNK_SIZE )
                   => Emitted(t, h, MatchEnd(content, t, h) - h)

\* C8: the result of a run never holds two artifacts of the same type with the
\* same start offset.
C8_NoDuplicateArtifacts ==
    Cardinality({ <<results[i].type, results[i].offset>> : i \in 1..Len(results) })
        = Len(results)

\* C9: every stored CarvedFile record names an output file that holds the
\* bytes of its own match, however many runs have written since.
C9_RecordsKeepTheirBytes ==
    \A i \in 1..Len(carvedFiles) :
        BytesOf(outDir[carvedFiles[i].filename]) = BytesOf(written[i])

\* C10: a run returns at most 500 artifacts on the whole-file path and at most
\* 200 on the streaming path.
C10_ResultCaps ==
    /\ WholeRunDone => Len(results) <= CARVE_CAP_WHOLE
    /\ StreamRunDone => Len(results) <= CARVE_CAP_STREAM

----------------------------------------------------------------------------
(* One keywordSearch run over the files of a tree (processors.ts: keywordSearch) *)

\* CHUNK_SIZE of searchFileStreamingHex / searchFileStreamingText: 16 MiB in
\* the source, scaled with MAX_FILE_SIZE_SYNC (1/32 of it)
SEARCH_CHUNK_SIZE == 1600

\* Files of the searched tree: two on the whole-buffer path with 500 and 501
\* occurrences, one small file, two above MAX_FILE_SIZE_SYNC
A500File == Fill(97, SEARCH_HIT_CAP)
A501File == Fill(97, SEARCH_HIT_CAP + 1)
MixedFile == <<97, 65, 0, 97, 97>>
BigA60File == Fill(97, STREAM_HIT_CAP + 10) \o Fill(0, MAX_FILE_SIZE_SYNC)
BigFewFile == <<97, 0, 65, 0, 97>> \o Fill(0, MAX_FILE_SIZE_SYNC)

\* fs.readFileSync(f) / the bytes readSync reads from, by file name
SearchContent(f) ==
    CASE f = "a500" -> A500File
      [] f = "a501" -> A501File
      [] f = "mixed" -> MixedFile
      [] f = "bigA60" -> BigA60File
      [] f = "bigFew" -> BigFewFile

SearchFileNames == {"a500", "a501", "mixed", "bigA60", "bigFew"}

MaxSearchFiles == 2

SearchInit ==
    /\ ScanIdle
    /\ DetectIdle
    /\ CarveIdle
    /\ StringsIdle
    /\ AnalyzeIdle
    /\ DecryptIdle
    /\ JobsIdle
    /\ RegistryIdle
    /\ SignaturesIdle
    /\ ProgressIdle
    /\ DateIdle
    /\ EntropyIdle
    /\ UploadIdle
    /\ searchFiles \in SeqsOf(SearchFileNames, 0, MaxSearchFiles)
    /\ searchQuery \in {<<97>>, <<97, 97>>}
    /\ searchMode \in {"hex", "text"}
    /\ searchCase \in BOOLEAN
    /\ (searchMode = "hex" => searchCase = TRUE)
    /\ fileIdx = 0
    /\ searchPc = "for"
    /\ runHits = <<>>
    /\ chunkHits = <<>>
    /\ sOffset = 0
    /\ sGlobalOffset = 0
    /\ sCarry = 0
    /\ sReadStart = 0
    /\ sBytesRead = 0
    /\ sPos = 0

\* searchStr / searchText: lower-cased in text mode when caseSensitive is false
SearchStr == IF searchMode = "hex" \/ searchCase THEN searchQuery ELSE ToLowerCase(searchQuery)
SearchText(bytes) == IF searchMode = "hex" \/ searchCase THEN bytes ELSE ToLowerCase(bytes)

\* The for loop test and checkFileSize of the next file
SearchFor ==
    /\ searchPc = "for"
    /\ IF fileIdx < Len(searchFiles)
       THEN IF SizeOk(SearchContent(searchFiles[fileIdx + 1]))
            THEN searchPc' = "whole"
            ELSE searchPc' = "read"
       ELSE searchPc' = "done"
    /\ sOffset' = 0
    /\ sGlobalOffset' = 0
    /\ sCarry' = 0
    /\ chunkHits' = <<>>
    /\ UNCHANGED <<searchFiles, searchQuery, searchMode, searchCase, fileIdx, runHits,
                   sReadStart, sBytesRead, sPos>>

\* One iteration of the while (true) loop of the whole-buffer branch; when it
\* is left, the test if (hits.length > 500) break and i++
SearchWhole ==
    /\ searchPc = "whole"
    /\ LET content == SearchContent(searchFiles[fileIdx + 1])
           idx == IndexOf(SearchText(content), SearchStr, sOffset)
       IN IF idx # -1
          THEN /\ runHits' = Append(runHits, <<fileIdx, idx>>)
               /\ sOffset' = idx + 1
               /\ IF Len(runHits') > SEARCH_HIT_CAP
                  THEN searchPc' = "done" /\ UNCHANGED fileIdx
                  ELSE UNCHANGED <<searchPc, fileIdx>>
          ELSE /\ UNCHANGED <<runHits, sOffset>>
               /\ IF Len(runHits) > SEARCH_HIT_CAP
                  THEN searchPc' = "done" /\ UNCHANGED fileIdx
                  ELSE searchPc' = "for" /\ fileIdx' = fileIdx + 1
    /\ UNCHANGED <<searchFiles, searchQuery, searchMode, searchCase, chunkHits,
                   sGlobalOffset, sCarry, sReadStart, sBytesRead, sPos>>

\* The outer while test and the read of searchFileStreamingHex / Text; when
\* the loop is left the call returns: hits.push(...chunkHits), the test
\* if (hits.length > 500) break and i++
SearchRead ==
    /\ searchPc = "read"
    /\ LET content == SearchContent(searchFiles[fileIdx + 1])
           rs == Max(0, sGlobalOffset - sCarry)
           n == ReadLen(content, SEARCH_CHUNK_SIZE + Overlap(searchQuery), rs)
       IN IF sGlobalOffset < Len(content) /\ Len(chunkHits) < STREAM_HIT_CAP /\ n # 0
          THEN /\ sReadStart' = rs
               /\ sBytesRead' = n
               /\ sPos' = sCarry
               /\ searchPc' = "chunk"
               /\ UNCHANGED <<runHits, fileIdx>>
          ELSE /\ runHits' = runHits \o [k \in 1..Len(chunkHits) |-> <<fileIdx, chunkHits[k]>>]
               /\ IF Len(runHits') > SEARCH_HIT_CAP
                  THEN searchPc' = "done" /\ UNCHANGED fileIdx
                  ELSE searchPc' = "for" /\ fileIdx' = fileIdx + 1
               /\ UNCHANGED <<sReadStart, sBytesRead, sPos>>
    /\ UNCHANGED <<searchFiles, searchQuery, searchMode, searchCase, chunkHits,
                   sOffset, sGlobalOffset, sCarry>>

\* One iteration of the inner while loop of searchFileStreamingHex / Text;
\* when it is left, globalOffset and carry are advanced
SearchChunk ==
    /\ searchPc = "chunk"
    /\ LET content == SearchContent(searchFiles[fileIdx + 1])
           chunk == Slice(content, sReadStart, sReadStart + sBytesRead)
           idx == IndexOf(SearchText(chunk), SearchStr, sPos)
           test == /\ Len(chunkHits) < STREAM_HIT_CAP
                   /\ IF searchMode = "hex"
                      THEN sPos < Len(chunk) - Len(searchQuery) + 1
                      ELSE sPos < Len(chunk)
       IN IF test /\ idx # -1
          THEN /\ chunkHits' = Append(chunkHits, sReadStart + idx)
               /\ sPos' = idx + 1
               /\ UNCHANGED <<sGlobalOffset, sCarry, searchPc>>
          ELSE /\ sGlobalOffset' = sReadStart + sBytesRead - Overlap(searchQuery)
               /\ sCarry' = Overlap(searchQuery)
               /\ searchPc' = "read"
               /\ UNCHANGED <<chunkHits, sPos>>
    /\ UNCHANGED <<searchFiles, searchQuery, searchMode, searchCase, fileIdx, runHits,
                   sOffset, sReadStart, sBytesRead>>

SearchNext ==
    (SearchFor \/ SearchWhole \/ SearchRead \/ SearchChunk)
        /\ UNCHANGED <<scanVars, detectVars, carveVars, stringsVars, analyzeVars, decryptVars, jobVars, registryVars, sigApiVars, progressVars, dateVars, entropyVars, uploadVars>>

SpecSearch == SearchInit /\ [][SearchNext]_vars

\* C11: a keywordSearch run never holds more than 500 hits in total.
C11_RunHitCap == Len(runHits) <= SEARCH_HIT_CAP

----------------------------------------------------------------------------
(* String extraction (processors.ts: extractStrings) *)

\* results.length > 5000 (whole-file branch), results.length >= 5000 (streaming)
STRINGS_CAP == 5000
\* current.substring(0, 500)
STRING_VALUE_MAX == 500

\* (variant: DEL counted as printable)
PrintableThroughDel(byte) == byte >= 32 /\ byte <= 127

\* byte >= 32 && byte < 127
Printable(byte) == byte >= 32 /\ byte < 127

\* (variant: the offset inside the chunk)
OffsetInChunk(globalOff, i) == i

\* globalOffset + i (streaming branch), i (whole-file branch, globalOff = 0)
AbsOffset(globalOff, i) == globalOff + i

\* {offset: startOffset, value: current.substring(0, 500), encoding: "ascii"}
StringEntry(startOffset, current) ==
    [offset |-> startOffset,
     value |-> SubSeq(current, 1, Min(STRING_VALUE_MAX, Len(current)))]

\* The locals of the byte loop; broke: the loop was left by break
LoopState(res, current, startOffset, broke) ==
    [results |-> res, current |-> current, startOffset |-> startOffset, broke |-> broke]

\* The body of the byte loop for the byte at absolute offset off; streaming
\* selects the break test of the streaming branch
LoopBody(st, byte, off, minLength, streaming) ==
    LET res == IF ~Printable(byte) /\ Len(st.current) >= minLength
               THEN Append(st.results, StringEntry(st.startOffset, st.current))
               ELSE st.results
        current == IF Printable(byte) THEN Append(st.current, byte) ELSE <<>>
        startOffset == IF Printable(byte) /\ Len(st.current) = 0 THEN off
                       ELSE st.startOffset
        broke == IF streaming THEN Len(res) >= STRINGS_CAP ELSE Len(res) > STRINGS_CAP
    IN LoopState(res, current, startOffset, broke)

\* for (let i = lo; i < hi; i++) body, on the bytes buf[0..] that start at the
\* absolute offset base: the iterations lo..mid-1 followed by mid..hi-1
RECURSIVE ByteLoop(_, _, _, _, _, _, _)
ByteLoop(st, buf, base, lo, hi, minLength, streaming) ==
    IF st.broke \/ lo >= hi THEN st
    ELSE IF hi - lo = 1
         THEN LoopBody(st, buf[lo + 1], AbsOffset(base, lo), minLength, streaming)
         ELSE LET mid == lo + ((hi - lo) \div 2)
              IN ByteLoop(ByteLoop(st, buf, base, lo, mid, minLength, streaming),
                          buf, base, mid, hi, minLength, streaming)

\* The whole-file branch: the loop over content and the push behind it
ExtractWhole(content, minLength) ==
    LET st == ByteLoop(LoopState(<<>>, <<>>, 0, FALSE), content, 0, 0, Len(content),
                       minLength, FALSE)
    IN IF Len(st.current) >= minLength
       THEN Append(st.results, StringEntry(st.startOffset, st.current))
       ELSE st.results

\* Model bounds of the inputs of extractStrings
MaxStrLen == 5
MaxMinLength == 3
MaxStrChunk == 3
StrAlphabet == {31, 32, 126, 127}

\* A printable run longer than STRING_VALUE_MAX between two other bytes
LongRunFile == <<127>> \o Fill(97, STRING_VALUE_MAX + 1) \o <<0, 98>>
\* More one-character strings than STRINGS_CAP
ManyStringsFile == Repeat(<<97, 0>>, STRINGS_CAP + 1) \o <<98>>
\* Chunk size used with the two long files
LongFileChunk == 200

StringsInit ==
    /\ ScanIdle
    /\ DetectIdle
    /\ CarveIdle
    /\ SearchIdle
    /\ AnalyzeIdle
    /\ DecryptIdle
    /\ JobsIdle
    /\ RegistryIdle
    /\ SignaturesIdle
    /\ ProgressIdle
    /\ DateIdle
    /\ EntropyIdle
    /\ UploadIdle
    /\ \/ /\ strContent \in SeqsOf(StrAlphabet, 0, MaxStrLen)
          /\ strChunk \in 1..MaxStrChunk
       \/ /\ strContent \in {LongRunFile, ManyStringsFile}
          /\ strChunk = LongFileChunk
    /\ strMin \in 1..MaxMinLength
    /\ wholeStrings = "pending"
    /\ streamPc = "loop"
    /\ streamStrings = <<>>
    /\ strGlobal = 0
    /\ strCurrent = <<>>
    /\ strStart = 0

\* extractStrings, whole-file branch (ok = true)
StringsWhole ==
    /\ wholeStrings = "pending"
    /\ wholeStrings' = ExtractWhole(strContent, strMin)
    /\ UNCHANGED <<strContent, strMin, strChunk, streamPc, streamStrings, strGlobal,
                   strCurrent, strStart>>

\* extractStrings, streaming branch: the while test, one read and the loop
\* over its bytes, globalOffset += bytesRead
StringsRead ==
    /\ wholeStrings # "pending"
    /\ streamPc = "loop"
    /\ LET n == ReadLen(strContent, strChunk, strGlobal)
           chunk == Slice(strContent, strGlobal, strGlobal + n)
           st == ByteLoop(LoopState(streamStrings, strCurrent, strStart, FALSE),
                          chunk, strGlobal, 0, n, strMin, TRUE)
       IN IF strGlobal < Len(strContent) /\ Len(streamStrings) < STRINGS_CAP /\ n # 0
          THEN /\ streamStrings' = st.results
               /\ strCurrent' = st.current
               /\ strStart' = st.startOffset
               /\ strGlobal' = strGlobal + n
               /\ UNCHANGED streamPc
          ELSE /\ streamPc' = "after"
               /\ UNCHANGED <<streamStrings, strCurrent, strStart, strGlobal>>
    /\ UNCHANGED <<strContent, strMin, strChunk, wholeStrings>>

\* extractStrings, streaming branch: the push behind the while loop
StringsFinish ==
    /\ streamPc = "after"
    /\ streamStrings' = IF Len(strCurrent) >= strMin /\ Len(streamStrings) < STRINGS_CAP
                        THEN Append(streamStrings, StringEntry(strStart, strCurrent))
                        ELSE streamStrings
    /\ streamPc' = "done"
    /\ UNCHANGED <<strContent, strMin, strChunk, wholeStrings, strGlobal, strCurrent,
                   strStart>>

StringsNext ==
    (StringsWhole \/ StringsRead \/ StringsFinish)
        /\ UNCHANGED <<scanVars, detectVars, carveVars, searchVars, analyzeVars, decryptVars, jobVars, registryVars, sigApiVars, progressVars, dateVars, entropyVars, uploadVars>>

SpecStrings == StringsInit /\ [][StringsNext]_vars

StringsDone == wholeStrings # "pending" /\ streamPc = "done"

\* The maximal runs of bytes in 0x20..0x7E, stated on the content alone
InAsciiRange(b) == b \in 32..126
RunStarts(content) ==
    { i \in 0..(Len(content) - 1) :
        InAsciiRange(content[i + 1]) /\ (i = 0 \/ ~InAsciiRange(content[i])) }
RunEnd(content, i) ==
    CHOOSE j \in (i + 1)..Len(content) :
        /\ \A k \in i..(j - 1) : InAsciiRange(content[k + 1])
        /\ (j = Len(content) \/ ~InAsciiRange(content[j + 1]))
ExpectedStrings(content, minLength) ==
    { [offset |-> i,
       value |-> SubSeq(content, i + 1, Min(RunEnd(content, i), i + STRING_VALUE_MAX))] :
        i \in { r \in RunStarts(content) : RunEnd(content, r) - r >= minLength } }

\* res lists exactly the expected strings, once each, in ascending offset order
ListsExpected(res, content, minLength) ==
    /\ { res[k] : k \in 1..Len(res) } = ExpectedStrings(content, minLength)
    /\ \A k \in 1..(Len(res) - 1) : res[k].offset < res[k + 1].offset

\* C12: a run of extractStrings returns at most 5,000 strings, on either branch.
C12_StringsCap ==
    /\ wholeStrings # "pending" => Len(wholeStrings) <= STRINGS_CAP
    /\ streamPc = "done" => Len(streamStrings) <= STRINGS_CAP

\* C13: while the cap is not reached, each branch of extractStrings returns,
\* in ascending offset order, exactly one entry per maximal run of bytes in
\* 0x20..0x7E of length at least minLength (minLength >= 1), with the offset
\* of the run's first byte and the run's first 500 characters.
C13_OneEntryPerRun ==
    /\ (wholeStrings # "pending" /\ Len(wholeStrings) < STRINGS_CAP)
           => ListsExpected(wholeStrings, strContent, strMin)
    /\ (streamPc = "done" /\ Len(streamStrings) < STRINGS_CAP)
           => ListsExpected(streamStrings, strContent, strMin)

\* A run longer than 500 characters was truncated and a short final run dropped
C13_Witness ==
    /\ StringsDone
    /\ strContent = LongRunFile
    /\ strMin = 2
    /\ Len(wholeStrings) = 1
    /\ Len(wholeStrings[1].value) = STRING_VALUE_MAX
    /\ wholeStrings[1].offset = 1
    /\ Len(streamStrings) = 1

\* C14: on a content with fewer strings than the cap the streaming branch
\* returns the same list as the whole-file branch, for every chunk size.
C14_StreamingEqualsWhole ==
    (StringsDone /\ Len(wholeStrings) < STRINGS_CAP) => streamStrings = wholeStrings

\* A run that crosses two chunk boundaries is reported once, with the offset
\* of its first byte
C14_Witness ==
    /\ StringsDone
    /\ strChunk = 1
    /\ strMin = 3
    /\ strContent = <<31, 32, 126, 32>>
    /\ streamStrings = <<[offset |-> 1, value |-> <<32, 126, 32>>]>>

----------------------------------------------------------------------------
(* analyzeBBBackup (bbAnalyzer.ts): the walk over the collected files, the  *)
(* decryptability pass and the statistics                                   *)

REMF_MAGIC == <<82, 69, 77, 70>>

BB_EXTS == {".rem", ".cod", ".dat", ".key", ".mkf", ".ipd", ".bbb", ".tar", ".db", ".evt"}

\* detectEncryption looks at no more than this many leading bytes
ENTROPY_SAMPLE == 4096

\* detectEncryption answers false below this length
ENTROPY_MIN_LEN == 16

\* Fixed-point scale of the logarithms: LOG_ONE stands for 1.0
LOG_FRAC_BITS == 10

\* The entropy threshold 7.0 of detectEncryption
ENTROPY_THRESHOLD == 7

\* 2^e
RECURSIVE Pow2(_)
Pow2(e) == IF e = 0 THEN 1 ELSE 2 * Pow2(e - 1)

LOG_ONE == Pow2(LOG_FRAC_BITS)

\* floor(log2(x)) for 1 <= x < 2 * 2 * ENTROPY_SAMPLE
FloorLog2(x) == CHOOSE e \in 0..13 : Pow2(e) <= x /\ x < Pow2(e + 1)

\* The k fraction bits of log2(m / 4096) for a mantissa 4096 <= m < 8192,
\* by repeated squaring
RECURSIVE FracBits(_, _)
FracBits(m, k) ==
    IF k = 0 THEN 0
    ELSE LET m2 == (m * m) \div 4096
         IN IF m2 >= 8192
            THEN Pow2(k - 1) + FracBits(m2 \div 2, k - 1)
            ELSE FracBits(m2, k - 1)

\* Math.log2(x) in units of 1 / LOG_ONE, rounded down (error below 4 units)
Log2Fix(x) ==
    LET e == FloorLog2(x)
    IN e * LOG_ONE + FracBits((x * 4096) \div Pow2(e), LOG_FRAC_BITS)

\* freq[b] of detectEncryption over the sample
ByteFreq(sample, b) == Cardinality({i \in 1..Len(sample) : sample[i] = b})

\* sampleLen * entropy in units of 1 / LOG_ONE:
\* -sum p log2 p = log2 n - (1/n) sum f log2 f, the sum taken per position
EntropyTimesLen(sample) ==
    LET n == Len(sample)
        Values == {sample[i] : i \in 1..n}
        logF == [b \in Values |-> Log2Fix(ByteFreq(sample, b))]
        RECURSIVE Sum(_, _)
        Sum(lo, hi) ==
            IF lo > hi THEN 0
            ELSE IF lo = hi THEN logF[sample[lo]]
            ELSE LET mid == (lo + hi) \div 2
                 IN Sum(lo, mid) + Sum(mid + 1, hi)
    IN n * Log2Fix(n) - Sum(1, n)

\* The variant that takes the histogram of the whole buffer
detectEncryptionWhole(buffer) ==
    IF Len(buffer) < ENTROPY_MIN_LEN THEN FALSE
    ELSE EntropyTimesLen(buffer) > ENTROPY_THRESHOLD * LOG_ONE * Len(buffer)

\* detectEncryption(buffer): Shannon entropy of the first 4096 bytes above
\* 7.0.  The logarithms are fixed-point, so the answer is that of the source
\* for every buffer whose entropy is not within 0.01 of the threshold.
detectEncryption(buffer) ==
    IF Len(buffer) < ENTROPY_MIN_LEN THEN FALSE
    ELSE LET sample == SubSeq(buffer, 1, Min(Len(buffer), ENTROPY_SAMPLE))
         IN EntropyTimesLen(sample) > ENTROPY_THRESHOLD * LOG_ONE * Len(sample)

\* hasRemfHeader(buffer)
hasRemfHeader(buffer) ==
    Len(buffer) >= 4 /\ SubSeq(buffer, 1, 4) = REMF_MAGIC

\* The default minLen of countStringsInBuffer
COUNT_MIN_LEN == 4

\* One iteration of the for loop of countStringsInBuffer on the pair
\* <<current, count>>
CountStep(st, byte, minLen) ==
    IF byte >= 32 /\ byte < 127
    THEN <<st[1] + 1, st[2]>>
    ELSE <<0, IF st[1] >= minLen THEN st[2] + 1 ELSE st[2]>>

\* The for loop over buffer[lo..hi] (1-based, inclusive), left to right.
\* The membership test has the pair computed before the range is split.
RECURSIVE CountLoop(_, _, _, _, _)
CountLoop(buffer, st, lo, hi, minLen) ==
    IF st \notin Nat \X Nat \/ lo > hi THEN st
    ELSE IF lo = hi THEN CountStep(st, buffer[lo], minLen)
    ELSE LET mid == (lo + hi) \div 2
         IN CountLoop(buffer, CountLoop(buffer, st, lo, mid, minLen), mid + 1, hi, minLen)

\* countStringsInBuffer(buffer, minLen): runs of bytes 32..126 of length
\* >= minLen, the run at the end of the buffer included
CountRuns(buffer, minLen) ==
    LET st == CountLoop(buffer, <<0, 0>>, 1, Len(buffer), minLen)
    IN IF st[1] >= minLen THEN st[2] + 1 ELSE st[2]

countStringsInBuffer(buffer) == CountRuns(buffer, COUNT_MIN_LEN)

\* One while loop of countMediaSignatures: signatures found from offset on,
\* each at an index below buffer.length - margin, stepping past each by step
RECURSIVE SigCount(_, _, _, _, _)
SigCount(buffer, sig, step, margin, from) ==
    IF from < Len(buffer) - margin
    THEN LET idx == IndexOf(buffer, sig, from)
         IN IF idx # -1 /\ idx < Len(buffer) - margin
            THEN 1 + SigCount(buffer, sig, step, margin, idx + step)
            ELSE 0
    ELSE 0

countMediaSignatures(buffer) ==
    SigCount(buffer, <<255, 216, 255>>, 3, 4, 0)
        + SigCount(buffer, <<137, 80, 78, 71>>, 4, 8, 0)

\* --- the files of the walked trees ---

\* 160 distinct byte values once each, then one repeat: entropy about 7.3.
\* The bytes 48..126 in it form one printable run.
EncryptedBytes == [i \in 1..160 |-> i + 47] \o <<48>>

\* One byte value only: entropy 0
PlainRemBytes == Fill(104, 20)

\* Shorter than ENTROPY_MIN_LEN, all bytes distinct
ShortRemBytes == <<1, 2, 3, 4, 5, 6, 7, 8>>

\* High entropy behind a REMF header
RemfBytes == REMF_MAGIC \o EncryptedBytes

\* A walked file: basename, whether statSync and readFileSync succeed, bytes
BBFile(name, ext, statOk, readable, bytes) ==
    [name |-> name, ext |-> ext, statOk |-> statOk, readable |-> readable,
     bytes |-> bytes]

BBFiles ==
    { BBFile("msgs.rem", ".rem", TRUE, TRUE, "encrypted"),
      BBFile("remf.rem", ".rem", TRUE, TRUE, "remf"),
      BBFile("plain.rem", ".rem", TRUE, TRUE, "plain"),
      BBFile("short.rem", ".rem", TRUE, TRUE, "short"),
      BBFile("gone.rem", ".rem", FALSE, FALSE, "encrypted"),
      BBFile("locked.rem", ".rem", TRUE, FALSE, "encrypted"),
      BBFile("device.key", ".key", TRUE, TRUE, "short"),
      BBFile("locked.key", ".key", TRUE, FALSE, "short"),
      BBFile("bbthumbs.dat", ".dat", TRUE, TRUE, "plain"),
      BBFile("log.evt", ".evt", TRUE, TRUE, "plain"),
      BBFile("notes.txt", ".txt", TRUE, TRUE, "plain") }

\* The bytes of a walked file
BBContent(f) ==
    CASE f.bytes = "encrypted" -> EncryptedBytes
      [] f.bytes = "remf" -> RemfBytes
      [] f.bytes = "plain" -> PlainRemBytes
      [] OTHER -> ShortRemBytes

MaxBBFiles == 3

\* basenameLower === "bbthumbs.dat" || basenameLower.startsWith("bbthumbs")
IsThumbsName(f) == f.name = "bbthumbs.dat"

\* basenameLower.endsWith(".evt") (no eventlog names in the walked trees)
IsEvtName(f) == f.ext = ".evt"

AnalyzeInit ==
    /\ ScanIdle
    /\ DetectIdle
    /\ CarveIdle
    /\ SearchIdle
    /\ StringsIdle
    /\ DecryptIdle
    /\ JobsIdle
    /\ RegistryIdle
    /\ SignaturesIdle
    /\ ProgressIdle
    /\ DateIdle
    /\ EntropyIdle
    /\ UploadIdle
    /\ allFiles \in SeqsOf(BBFiles, 0, MaxBBFiles)
    /\ bbIdx = 0
    /\ bbPc = "walk"
    /\ remFiles = <<>>
    /\ keyFiles = <<>>
    /\ totalArtifacts = 0
    /\ bbStats = NoResult

\* What the walk computes from the bytes of a .rem file
RemFacts(content) ==
    [size |-> Len(content),
     encrypted |-> detectEncryption(content),
     hasRemfHeader |-> hasRemfHeader(content),
     stringsFound |-> countStringsInBuffer(content),
     mediaFound |-> countMediaSignatures(content)]

\* RemFacts of the four contents, computed once
KnownRemFacts ==
    <<RemFacts(EncryptedBytes), RemFacts(RemfBytes), RemFacts(PlainRemBytes),
      RemFacts(ShortRemBytes)>>

\* The BBRemFile record pushed for a readable .rem file
RemRecord(f) ==
    LET facts == KnownRemFacts[CASE f.bytes = "encrypted" -> 1
                                 [] f.bytes = "remf" -> 2
                                 [] f.bytes = "plain" -> 3
                                 [] OTHER -> 4]
    IN [filename |-> f.name,
        size |-> facts.size,
        encrypted |-> facts.encrypted,
        hasRemfHeader |-> facts.hasRemfHeader,
        decryptable |-> FALSE,
        stringsFound |-> facts.stringsFound,
        mediaFound |-> facts.mediaFound]

\* The BBKeyFile record pushed for a readable .key file
KeyRecord(f) == [filename |-> f.name, size |-> Len(BBContent(f))]

\* One iteration of the for loop over allFiles
AnalyzeFile ==
    /\ bbPc = "walk"
    /\ bbIdx < Len(allFiles)
    /\ LET f == allFiles[bbIdx + 1]
           thumb == IF IsThumbsName(f) /\ f.readable THEN 1 ELSE 0
           evt == IF IsEvtName(f) /\ f.readable THEN 1 ELSE 0
           known == f.ext \in BB_EXTS \/ IsEvtName(f)
       IN /\ bbIdx' = bbIdx + 1
          /\ IF ~f.statOk
             THEN UNCHANGED <<remFiles, keyFiles, totalArtifacts>>
             ELSE /\ totalArtifacts' = totalArtifacts + thumb + evt
                                         + (IF known THEN 1 ELSE 0)
                  /\ remFiles' = IF known /\ f.readable /\ f.ext = ".rem"
                                 THEN Append(remFiles, RemRecord(f))
                                 ELSE remFiles
                  /\ keyFiles' = IF known /\ f.readable /\ f.ext = ".key"
                                 THEN Append(keyFiles, KeyRecord(f))
                                 ELSE keyFiles
    /\ UNCHANGED <<allFiles, bbPc, bbStats>>

\* The variant that looks at the record alone
DecryptableWithoutKeys(rem, keys) == rem.encrypted

\* rem.encrypted && keyFiles.length > 0
Decryptable(rem, keys) == rem.encrypted /\ Len(keys) > 0

\* remFiles.filter(pred).length
CountRems(rems, field) == Cardinality({i \in 1..Len(rems) : rems[i][field]})

\* After the walk: the decryptability pass over remFiles and the stats
AnalyzeFinish ==
    /\ bbPc = "walk"
    /\ bbIdx = Len(allFiles)
    /\ LET marked == [i \in 1..Len(remFiles) |->
                         IF Decryptable(remFiles[i], keyFiles)
                         THEN [remFiles[i] EXCEPT !.decryptable = TRUE]
                         ELSE remFiles[i]]
       IN /\ remFiles' = marked
          /\ bbStats' = [type |-> "stats",
                         remCount |-> Len(marked),
                         encryptedCount |-> CountRems(marked, "encrypted"),
                         remfHeaderCount |-> CountRems(marked, "hasRemfHeader"),
                         decryptableCount |-> CountRems(marked, "decryptable"),
                         keyFileCount |-> Len(keyFiles)]
    /\ bbPc' = "done"
    /\ UNCHANGED <<allFiles, bbIdx, keyFiles, totalArtifacts>>

AnalyzeNext ==
    /\ AnalyzeFile \/ AnalyzeFinish
    /\ UNCHANGED <<scanVars, detectVars, carveVars, searchVars, stringsVars, decryptVars, jobVars, registryVars, sigApiVars, progressVars, dateVars, entropyVars, uploadVars>>

SpecAnalyze == AnalyzeInit /\ [][AnalyzeNext]_vars

\* C15: in every finished analysis each .rem record is decryptable exactly
\* when it is encrypted and the result holds at least one key file, wherever
\* the key files stand in the walk, and stats.decryptableCount is the number
\* of such records.
C15_DecryptableIffKey ==
    bbPc = "done" =>
        /\ \A i \in 1..Len(remFiles) :
               remFiles[i].decryptable
                   <=> (remFiles[i].encrypted /\ Len(keyFiles) >= 1)
        /\ bbStats.decryptableCount =
               Cardinality({i \in 1..Len(remFiles) :
                               remFiles[i].encrypted /\ Len(keyFiles) >= 1})

\* An encrypted .rem file walked before the only key file, marked decryptable
C15_Witness ==
    /\ bbPc = "done"
    /\ Len(allFiles) = 2
    /\ allFiles[1].name = "msgs.rem"
    /\ allFiles[2].name = "device.key"
    /\ Len(remFiles) = 1
    /\ remFiles[1].encrypted
    /\ remFiles[1].decryptable
    /\ bbStats.decryptableCount = 1

----------------------------------------------------------------------------
(* decryptRemFile (bbAnalyzer.ts): one .rem file against the key files     *)

\* Both transforms look at no more than 1024 * 1024 bytes of the content
DECRYPT_LIMIT == 1048576

AES_KEY_LEN == 16
AES_BLOCK == 16
DES_KEY_LEN == 24
DES_BLOCK == 8

\* x ^ y on byte values, bit by bit
RECURSIVE XorBits(_, _, _)
XorBits(a, b, n) ==
    IF n = 0 THEN 0
    ELSE ((a + b) % 2) + 2 * XorBits(a \div 2, b \div 2, n - 1)

XorByte(a, b) == XorBits(a, b, 8)

\* keyContent[i % keyContent.length] for a 0-based i.  With an empty key the
\* index is NaN, the element undefined, and x ^ undefined is x ^ 0.
KeyByteAt(keyContent, i) ==
    IF Len(keyContent) = 0 THEN 0 ELSE keyContent[(i % Len(keyContent)) + 1]

\* Lines 676-679: xorResult
XorResult(workingContent, keyContent) ==
    [i \in 1..Min(Len(workingContent), DECRYPT_LIMIT) |->
        XorByte(workingContent[i], KeyByteAt(keyContent, i - 1))] \o <<>>

MESSAGE_PATTERNS ==
    <<<<98, 98, 109>>,
      <<109, 101, 115, 115, 97, 103, 101>>,
      <<99, 104, 97, 116>>,
      <<115, 109, 115>>,
      <<101, 109, 97, 105, 108>>,
      <<105, 110, 98, 111, 120>>,
      <<111, 117, 116, 98, 111, 120>>,
      <<115, 101, 110, 116>>,
      <<102, 114, 111, 109, 58>>,
      <<116, 111, 58>>,
      <<115, 117, 98, 106, 101, 99, 116, 58>>,
      <<100, 97, 116, 101, 58>>,
      <<100, 101, 108, 105, 118, 101, 114, 101, 100>>>>

\* The while loop of searchForMessages for one pattern: every index at which
\* the pattern occurs, overlapping occurrences included
Occurrences(lower, pattern) ==
    Cardinality({i \in 0..(Len(lower) - 1) : MatchAt(lower, pattern, i)})

RECURSIVE SumOccurrences(_, _)
SumOccurrences(lower, k) ==
    IF k = 0 THEN 0
    ELSE Occurrences(lower, MESSAGE_PATTERNS[k]) + SumOccurrences(lower, k - 1)

\* searchForMessages(buffer), on buffers below DECRYPT_LIMIT
searchForMessages(buffer) ==
    SumOccurrences(ToLowerCase(buffer) \o <<>>, Len(MESSAGE_PATTERNS))

\* searchForContacts(buffer) on the buffers of this model: none of them holds
\* an '@' or ten digits, so neither pattern matches
searchForContacts(buffer) == 0

\* --- key files ---

KeyNames == {"span.key", "one.key", "aes.key", "des.key", "empty.key", "gone.key"}

\* fs.readFileSync(path.join(dirPath, kf.path)) succeeds
KeyReadable(kf) == kf # "gone.key"

SpanKey == <<0, 96, 0>>
OneKey == <<7>>
AesKey == <<1, 2, 3, 4, 5, 6, 7, 8, 9, 10, 11, 12, 13, 14, 15, 16>>
DesKey == AesKey \o <<17, 18, 19, 20, 21, 22, 23, 24>>

\* The bytes of a key file
KeyBytes(kf) ==
    CASE kf = "span.key" -> SpanKey
      [] kf = "one.key" -> OneKey
      [] kf = "aes.key" -> AesKey
      [] kf = "des.key" -> DesKey
      [] OTHER -> <<>>

MaxKeyFiles == 2

\* keyFiles: up to MaxKeyFiles distinct key files in any order
KeyLists ==
    {ks \in SeqsOf(KeyNames, 0, MaxKeyFiles) :
        \A i, j \in 1..Len(ks) : i # j => ks[i] # ks[j]}

\* --- .rem contents ---

PLAIN_LEN == 100

\* 100 printable characters
PlainA == Fill(97, PLAIN_LEN)

\* Printable plaintexts whose XOR with SpanKey (OneKey) begins with REMF
PlainRemfSpan == <<82, 37, 77, 70>> \o PlainA
PlainRemfOne == <<85, 66, 74, 65>> \o PlainA

\* plaintext XOR repeating key: how the encrypted file was made
XorCipher(plain, key) ==
    [i \in 1..Len(plain) |-> XorByte(plain[i], KeyByteAt(key, i - 1))] \o <<>>

\* A .rem file made from a plaintext and a key, or one that was not
DecryptInput(plain, kf, content) == [plain |-> plain, key |-> kf, content |-> content]

DecryptInputs ==
    { DecryptInput(PlainA, "span.key", XorCipher(PlainA, SpanKey)),
      DecryptInput(PlainA, "one.key", XorCipher(PlainA, OneKey)),
      DecryptInput(PlainA, "aes.key", XorCipher(PlainA, AesKey)),
      DecryptInput(PlainRemfSpan, "span.key", XorCipher(PlainRemfSpan, SpanKey)),
      DecryptInput(PlainRemfOne, "one.key", XorCipher(PlainRemfOne, OneKey)),
      DecryptInput(<<>>, "none", Fill(0, 32)) }

\* --- cipher outcomes ---

\* What decipher.update/final deliver for one (key, content) pair is not
\* computed here: a call either throws or returns one of these buffers, which
\* hold 0, 1 and 2 printable strings
CipherOutcome(threw, bytes) == [threw |-> threw, bytes |-> bytes]

CipherOutcomes ==
    { CipherOutcome(TRUE, <<>>),
      CipherOutcome(FALSE, <<0, 0, 0, 0>>),
      CipherOutcome(FALSE, <<99, 104, 97, 116>>),
      CipherOutcome(FALSE, <<97, 98, 99, 100, 0, 255, 216, 255, 0, 0, 0, 0, 101, 102, 103, 104>>) }

\* The block cipher was not attempted
NotAttempted == CipherOutcome(TRUE, <<0>>)

\* --- results ---

DecryptResult(success, method, strings, messages, contacts, media) ==
    [success |-> success, method |-> method, extractedStrings |-> strings,
     messages |-> messages, contacts |-> contacts, media |-> media]

NoneResult == DecryptResult(FALSE, <<"none">>, 0, 0, 0, 0)
ErrorResult == DecryptResult(FALSE, <<"error">>, 0, 0, 0, 0)
PendingResult == DecryptResult(FALSE, <<"pending">>, 0, 0, 0, 0)

\* The method strings, as their pieces
XorMethod(kf, hasRemf) ==
    <<"XOR with ", kf, IF hasRemf THEN " (REMF header stripped)" ELSE "">>
AesMethod(kf, hasRemf) ==
    <<"AES-128-CBC with ", kf, IF hasRemf THEN " (REMF)" ELSE "">>
DesMethod(kf, hasRemf) ==
    <<"3DES-CBC with ", kf, IF hasRemf THEN " (REMF)" ELSE "">>

\* const workingContent = remContent.slice(dataStart)
WorkingContent(content) ==
    SubSeq(content, (IF hasRemfHeader(content) THEN 4 ELSE 0) + 1, Len(content))

\* Math.floor(Math.min(workingContent.length, 1024 * 1024) / block) * block
CipherLen(workingContent, block) ==
    (Min(Len(workingContent), DECRYPT_LIMIT) \div block) * block

\* keySlice.length === keyLen and aesLen (desLen) > 0
CipherApplies(keyContent, workingContent, keyLen, block) ==
    Len(keyContent) >= keyLen /\ CipherLen(workingContent, block) > 0

\* if (strings > bestResult.extractedStrings) bestResult = {...}
Better(best, method, buffer) ==
    LET strings == countStringsInBuffer(buffer)
    IN IF strings > best.extractedStrings
       THEN DecryptResult(TRUE, method, strings, searchForMessages(buffer),
                          searchForContacts(buffer), countMediaSignatures(buffer))
       ELSE best

\* One try block of a block cipher
AfterCipher(best, method, outcome) ==
    IF outcome.threw THEN best ELSE Better(best, method, outcome.bytes)

DecryptInit ==
    /\ ScanIdle
    /\ DetectIdle
    /\ CarveIdle
    /\ SearchIdle
    /\ StringsIdle
    /\ AnalyzeIdle
    /\ JobsIdle
    /\ RegistryIdle
    /\ SignaturesIdle
    /\ ProgressIdle
    /\ DateIdle
    /\ EntropyIdle
    /\ UploadIdle
    /\ \E input \in DecryptInputs :
          /\ remContent = input.content
          /\ decPlain = input.plain
          /\ decKey = input.key
    /\ remReadable \in BOOLEAN
    /\ decKeys \in KeyLists
    /\ decIdx = 0
    /\ decPc = "start"
    /\ bestResult = NoneResult
    /\ decResult = PendingResult
    /\ attempts = <<>>

\* Lines 665-671: the read of the .rem file; a failure goes to the catch
DecryptStart ==
    /\ decPc = "start"
    /\ IF remReadable
       THEN decPc' = "keys" /\ UNCHANGED decResult
       ELSE decPc' = "done" /\ decResult' = ErrorResult
    /\ bestResult' = NoneResult
    /\ UNCHANGED <<remContent, remReadable, decKeys, decIdx, attempts, decPlain, decKey>>

\* One iteration of the loop over keyFiles.  The read of the key file is
\* outside the inner try blocks: its failure goes to the catch of line 740.
DecryptKey ==
    /\ decPc = "keys"
    /\ decIdx < Len(decKeys)
    /\ LET kf == decKeys[decIdx + 1]
           keyContent == KeyBytes(kf)
           hasRemf == hasRemfHeader(remContent)
           workingContent == WorkingContent(remContent)
           xorResult == XorResult(workingContent, keyContent)
           afterXor == Better(bestResult, XorMethod(kf, hasRemf), xorResult)
           aesRuns == CipherApplies(keyContent, workingContent, AES_KEY_LEN, AES_BLOCK)
           desRuns == CipherApplies(keyContent, workingContent, DES_KEY_LEN, DES_BLOCK)
       IN IF ~KeyReadable(kf)
          THEN /\ decResult' = ErrorResult
               /\ decPc' = "done"
               /\ UNCHANGED <<decIdx, bestResult, attempts>>
          ELSE \E aes \in (IF aesRuns THEN CipherOutcomes ELSE {NotAttempted}),
                  des \in (IF desRuns THEN CipherOutcomes ELSE {NotAttempted}) :
                  LET afterAes == AfterCipher(afterXor, AesMethod(kf, hasRemf), aes)
                      afterDes == AfterCipher(afterAes, DesMethod(kf, hasRemf), des)
                  IN /\ bestResult' = afterDes
                     /\ attempts' = attempts
                            \o <<countStringsInBuffer(xorResult)>>
                            \o (IF aes.threw THEN <<>>
                                ELSE <<countStringsInBuffer(aes.bytes)>>)
                            \o (IF des.threw THEN <<>>
                                ELSE <<countStringsInBuffer(des.bytes)>>)
                     /\ decIdx' = decIdx + 1
                     /\ UNCHANGED <<decPc, decResult>>
    /\ UNCHANGED <<remContent, remReadable, decKeys, decPlain, decKey>>

\* Line 739: return bestResult
DecryptReturn ==
    /\ decPc = "keys"
    /\ decIdx = Len(decKeys)
    /\ decResult' = bestResult
    /\ decPc' = "done"
    /\ UNCHANGED <<remContent, remReadable, decKeys, decIdx, bestResult, attempts,
                   decPlain, decKey>>

DecryptNext ==
    /\ DecryptStart \/ DecryptKey \/ DecryptReturn
    /\ UNCHANGED <<scanVars, detectVars, carveVars, searchVars, stringsVars, analyzeVars, jobVars, registryVars, sigApiVars, progressVars, dateVars, entropyVars, uploadVars>>

SpecDecrypt == DecryptInit /\ [][DecryptNext]_vars

\* The greatest score of the transforms that ran, 0 if none ran
MaxScore(scores) ==
    IF scores = <<>> THEN 0
    ELSE CHOOSE m \in {scores[i] : i \in 1..Len(scores)} :
             \A i \in 1..Len(scores) : scores[i] <= m

\* C16: a call that read the .rem file returns the highest-scoring transform
\* over all (key, method) pairs that ran: extractedStrings is the greatest
\* score, success is true exactly when that is above zero, and otherwise the
\* result is method "none" with success false and all counts zero.
C16_BestOverAllAttempts ==
    (decPc = "done" /\ remReadable) =>
        /\ decResult.extractedStrings = MaxScore(attempts)
        /\ decResult.success <=> MaxScore(attempts) > 0
        /\ MaxScore(attempts) = 0 => decResult = NoneResult

\* C17: a file made as plaintext XOR repeating key, from at least 100
\* printable characters and a non-empty key that is among the key files,
\* decrypts with success, a method containing "XOR" and at least as many
\* strings as the plaintext has printable runs.  Stated for calls in which
\* every key file is read and none is long enough for a block cipher, so
\* that only XOR transforms compete.
C17_XorRoundTrip ==
    (/\ decPc = "done"
     /\ remReadable
     /\ decPlain # <<>>
     /\ \E i \in 1..Len(decKeys) : decKeys[i] = decKey
     /\ \A i \in 1..Len(decKeys) :
            KeyReadable(decKeys[i]) /\ Len(KeyBytes(decKeys[i])) < AES_KEY_LEN) =>
        /\ decResult.success
        /\ decResult.method[1] = "XOR with "
        /\ decResult.extractedStrings >= countStringsInBuffer(decPlain)

\* C18: a key file that cannot be read, a short key or a cipher error skips
\* that attempt only: every key file is visited and the best result of the
\* attempts that ran is what the call returns.
C18_FailureSkipsOneAttempt ==
    (decPc = "done" /\ remReadable) =>
        /\ decIdx = Len(decKeys)
        /\ decResult = bestResult

----------------------------------------------------------------------------
(* The job records (storage.ts, routes.ts): creation, the progress         *)
(* callback, completion, failure, cancellation and retry                    *)

\* A task of the server runs from one return to the event loop to the next;
\* a request handler runs between tasks only.  carveMedia and
\* carveMediaStreaming await nothing that leaves the task, so POST /api/carve
\* creates, runs and finishes its job in one task.  generateReport leaves the
\* task at `await import("archiver")` and at the wait for the close event of
\* the output stream.

\* A Job record with the position of its asynchronous body: "import" and
\* "close" are the two waits of generateReport, "none" is a job with no body
\* in flight.  cancelledRunning is history: cancelJob served the job while
\* its status was "running".
Job(type, status, progress, pc, cancelledRunning) ==
    [type |-> type, status |-> status, progress |-> progress, pc |-> pc,
     cancelledRunning |-> cancelledRunning]

\* storage.createJob(name, type)
createJob(type) == Job(type, "pending", 0, "none", FALSE)

\* storage.updateJob(id, { status })
SetStatus(job, status) == [job EXCEPT !.status = status]

\* makeProgressFn(jobId)(progress, message)
OnProgress(job, progress) == [job EXCEPT !.progress = progress, !.status = "running"]

\* storage.updateJob(job.id, { status: "completed", progress: 100 })
Complete(job) == [job EXCEPT !.status = "completed", !.progress = 100]

MaxJobs == 3

JobsInit ==
    /\ ScanIdle
    /\ DetectIdle
    /\ CarveIdle
    /\ SearchIdle
    /\ StringsIdle
    /\ AnalyzeIdle
    /\ DecryptIdle
    /\ RegistryIdle
    /\ SignaturesIdle
    /\ ProgressIdle
    /\ DateIdle
    /\ EntropyIdle
    /\ UploadIdle
    /\ jobs = <<>>

\* POST /api/carve with a file on which carveMedia returns
PostCarve ==
    /\ Len(jobs) < MaxJobs
    /\ \E size \in {"whole", "streaming"} :
          LET started == SetStatus(createJob("media_carve"), "running")
              scanned == IF size = "whole"
                         THEN OnProgress(OnProgress(started, 5), 50)
                         ELSE OnProgress(OnProgress(started, 5), 95)
          IN jobs' = Append(jobs, Complete(OnProgress(scanned, 100)))

\* POST /api/carve with a file on which carveMedia throws (statSync fails)
PostCarveFails ==
    /\ Len(jobs) < MaxJobs
    /\ jobs' = Append(jobs,
                   SetStatus(SetStatus(createJob("media_carve"), "running"), "failed"))

\* POST /api/report up to the first wait of generateReport
PostReport ==
    /\ Len(jobs) < MaxJobs
    /\ jobs' = Append(jobs,
                   [SetStatus(createJob("report_gen"), "running") EXCEPT !.pc = "import"])

\* generateReport from the import to the wait for the close event
ReportBuild(j) ==
    /\ jobs[j].pc = "import"
    /\ jobs' = [jobs EXCEPT ![j] =
                   [OnProgress(OnProgress(OnProgress(@, 10), 40), 70)
                        EXCEPT !.pc = "close"]]

\* generateReport from the close event to its return, and the completion
ReportReady(j) ==
    /\ jobs[j].pc = "close"
    /\ jobs' = [jobs EXCEPT ![j] = [Complete(OnProgress(@, 100)) EXCEPT !.pc = "none"]]

\* A rejected wait of generateReport: the catch of the route
ReportFails(j) ==
    /\ jobs[j].pc \in {"import", "close"}
    /\ jobs' = [jobs EXCEPT ![j] = [SetStatus(@, "failed") EXCEPT !.pc = "none"]]

\* POST /api/jobs/:id/cancel -> storage.cancelJob(id)
CancelJob(j) ==
    /\ jobs' = [jobs EXCEPT ![j] =
                   [SetStatus(@, "cancelled") EXCEPT
                        !.cancelledRunning = @ \/ jobs[j].status = "running"]]

\* POST /api/jobs/:id/retry: a new pending job, which nothing runs
RetryJob(j) ==
    /\ Len(jobs) < MaxJobs
    /\ jobs[j].status = "failed"
    /\ jobs' = Append(jobs, createJob(jobs[j].type))

JobsNext ==
    /\ \/ PostCarve
       \/ PostCarveFails
       \/ PostReport
       \/ \E j \in 1..Len(jobs) :
              ReportBuild(j) \/ ReportReady(j) \/ ReportFails(j) \/ CancelJob(j)
                  \/ RetryJob(j)
    /\ UNCHANGED <<scanVars, detectVars, carveVars, searchVars, stringsVars,
                   analyzeVars, decryptVars, registryVars, sigApiVars,
                   progressVars, dateVars,
                      entropyVars,
                      uploadVars>>

SpecJobs == JobsInit /\ [][JobsNext]_vars

\* The continuations of the asynchronous bodies in flight
JobsTasks ==
    /\ \E j \in 1..Len(jobs) : ReportBuild(j) \/ ReportReady(j) \/ ReportFails(j)
    /\ UNCHANGED <<scanVars, detectVars, carveVars, searchVars, stringsVars,
                   analyzeVars, decryptVars, registryVars, sigApiVars,
                   progressVars, dateVars,
                      entropyVars,
                      uploadVars>>

\* The event loop runs every continuation that is queued; requests arrive
\* or not
SpecJobsFair == JobsInit /\ [][JobsNext]_vars /\ WF_vars(JobsTasks)

\* The step appends a pending job (the response of the retry route)
RetryCreates == Len(jobs') = Len(jobs) + 1 /\ jobs'[Len(jobs')].status = "pending"

\* C25: the job created by a retry of a failed job eventually leaves
\* "pending" and reaches "completed" or "failed", its work being run again
\* (unless a client cancels it first); a retry of a job that is not failed is
\* rejected and creates no job.
C25_RetryRunsTheWork ==
    /\ \A j \in 1..MaxJobs :
           (j <= Len(jobs) /\ jobs[j].status = "pending")
               ~> ( /\ j <= Len(jobs)
                    /\ jobs[j].status \in {"completed", "failed", "cancelled"} )
    /\ [][RetryCreates => \E j \in 1..Len(jobs) : jobs[j].status = "failed"]_vars

\* C19: a job that was cancelled while it was running keeps the status
\* "cancelled": no later progress callback or completion sets it back to
\* "running" or "completed", and its processor takes no step past the next
\* boundary.
C19_CancelledStaysCancelled ==
    \A j \in 1..Len(jobs) :
        jobs[j].cancelledRunning => jobs[j].status = "cancelled"

----------------------------------------------------------------------------
(* The signature registry (analyzers/signatures.ts) and the carver          *)

\* signatures.filter(s => s.enabled), as names
getEnabledSignatures == {n \in SIG_NAMES : signatures[n]}

\* The extension of a registry entry
SigExtension(n) ==
    CASE n = "JPEG" -> "jpg"
      [] n = "PNG" -> "png"
      [] n = "PDF" -> "pdf"
      [] n = "ZIP" -> "zip"
      [] n \in {"GIF87a", "GIF89a"} -> "gif"
      [] n = "BMP" -> "bmp"
      [] n \in {"TIFF (LE)", "TIFF (BE)"} -> "tiff"
      [] OTHER -> "sqlite"

\* The names sent to PUT /api/carve/signatures/:name; "WEBP" is not in the
\* registry
ToggleNames == {"JPEG", "PNG", "GIF87a", "TIFF (LE)", "WEBP"}

\* Files posted to /api/carve: one JPEG, one PNG, one GIF87a image (header,
\* 96 bytes, trailer 3B), a JPEG followed by a PNG, and a file with no image
RegistryFiles ==
    { <<"JH", "z96", "JF">>, <<"PH", "z85", "PF">>, <<"GH", "z96", "GF">>,
      <<"JH", "z96", "JF", "PH", "z85", "PF">>, <<"z96">> }

RegistryInit ==
    /\ ScanIdle
    /\ DetectIdle
    /\ SearchIdle
    /\ StringsIdle
    /\ AnalyzeIdle
    /\ DecryptIdle
    /\ JobsIdle
    /\ SignaturesIdle
    /\ ProgressIdle
    /\ DateIdle
    /\ EntropyIdle
    /\ UploadIdle
    /\ signatures = DefaultSignatures
    /\ uploads \in {<<f>> : f \in RegistryFiles}
    /\ carveFile = <<>>
    /\ carvePc = "idle"
    /\ offset = 0
    /\ carveGlobal = 0
    /\ readPos = 0
    /\ chunkLen = 0
    /\ carvePos = 0
    /\ results = <<>>
    /\ carvedFiles = <<>>
    /\ outDir = <<>>
    /\ written = <<>>

\* PUT /api/carve/signatures/:name -> setSignatureEnabled(name, enabled),
\* for the requests served before the file is posted
SetSignatureEnabled ==
    /\ carvePc = "idle"
    /\ \E name \in ToggleNames, enabled \in BOOLEAN :
          signatures' = IF name \in SIG_NAMES
                        THEN [signatures EXCEPT ![name] = enabled]
                        ELSE signatures

RegistryNext ==
    \/ /\ CarveStart \/ JpgStep \/ PngStep
       /\ UNCHANGED <<scanVars, detectVars, searchVars, stringsVars, analyzeVars,
                      decryptVars, jobVars, signatures, sigApiVars,
                      progressVars, dateVars,
                      entropyVars,
                      uploadVars>>
    \/ /\ SetSignatureEnabled
       /\ UNCHANGED <<scanVars, detectVars, carveVars, searchVars, stringsVars,
                      analyzeVars, decryptVars, jobVars, sigApiVars,
                      progressVars, dateVars,
                      entropyVars,
                      uploadVars>>

SpecRegistry == RegistryInit /\ [][RegistryNext]_vars

\* The file of the run holds a GIF87a header followed by its trailer
HoldsGif87a(content) ==
    \E h \in 0..(Len(content) - 1) :
        /\ MatchAt(content, Piece("GH"), h)
        /\ IndexOf(content, Piece("GF"), h + Len(Piece("GH"))) # -1

\* C20: carving goes by the signature registry: a carveMedia run made while
\* JPEG is disabled emits no jpg artifact, and a run made while another
\* signature is enabled carves the matches of that signature.
C20_RegistryDrivesCarving ==
    WholeRunDone =>
        /\ ~signatures["JPEG"] =>
               \A i \in 1..Len(results) : results[i].type # SigExtension("JPEG")
        /\ (signatures["GIF87a"] /\ HoldsGif87a(Content(carveFile))) =>
               \E i \in 1..Len(results) : results[i].type = SigExtension("GIF87a")

----------------------------------------------------------------------------
(* The registry operations (analyzers/signatures.ts) and the route         *)
(* PUT /api/carve/signatures/:name                                          *)

\* const signatures, by name in array order
SIG_ORDER ==
    <<"JPEG", "PNG", "PDF", "ZIP", "GIF87a", "GIF89a", "BMP", "TIFF (LE)",
      "TIFF (BE)", "SQLite">>

\* The variant of the assignment that disables on every call
AssignDisabled(sigs, name, enabled) == [sigs EXCEPT ![name] = FALSE]

\* sig.enabled = enabled, on the entry found by name
AssignEnabled(sigs, name, enabled) == [sigs EXCEPT ![name] = enabled]

\* setSignatureEnabled(name, enabled): the value returned and the registry
\* it leaves
setSignatureEnabled(sigs, name, enabled) ==
    IF \E i \in 1..Len(SIG_ORDER) : SIG_ORDER[i] = name
    THEN [returned |-> TRUE, sigs |-> AssignEnabled(sigs, name, enabled)]
    ELSE [returned |-> FALSE, sigs |-> sigs]

\* s => ({ ...s }): a new object with the fields of s
CopyOf(sigs, name) ==
    [name |-> name, extension |-> SigExtension(name), enabled |-> sigs[name]]

\* getSignatures(): signatures.map(s => ({ ...s }))
getSignatures(sigs) == [i \in 1..Len(SIG_ORDER) |-> CopyOf(sigs, SIG_ORDER[i])]

\* getEnabledSignatures(): signatures.filter(s => s.enabled).map(s => ({ ...s }))
EnabledCopies(sigs) == SelectSeq(getSignatures(sigs), LAMBDA s : s.enabled)

\* The values req.body.enabled takes: the two booleans and the string
\* "true", which is none
EnabledInputs ==
    {[isBoolean |-> TRUE, value |-> TRUE], [isBoolean |-> TRUE, value |-> FALSE],
     [isBoolean |-> FALSE, value |-> TRUE]}

\* The call a response answers
SigCall(name, enabled, status) == [name |-> name, enabled |-> enabled, status |-> status]

\* A caller changes the records of the array it was returned: the first
\* MaxChanged of them
MaxChanged == 2

SignaturesInit ==
    /\ ScanIdle
    /\ DetectIdle
    /\ CarveIdle
    /\ SearchIdle
    /\ StringsIdle
    /\ AnalyzeIdle
    /\ DecryptIdle
    /\ JobsIdle
    /\ RegistryIdle
    /\ ProgressIdle
    /\ DateIdle
    /\ EntropyIdle
    /\ UploadIdle
    /\ sigCall = NoResult
    /\ sigReturned = <<>>

\* PUT /api/carve/signatures/:name
PutSignature ==
    \E name \in ToggleNames, enabled \in EnabledInputs :
        IF ~enabled.isBoolean
        THEN /\ sigCall' = SigCall(name, enabled, 400)
             /\ UNCHANGED <<signatures, sigReturned>>
        ELSE LET call == setSignatureEnabled(signatures, name, enabled.value)
             IN /\ signatures' = call.sigs
                /\ sigCall' = SigCall(name, enabled, IF call.returned THEN 200 ELSE 404)
                /\ sigReturned' = IF call.returned THEN getSignatures(call.sigs)
                                  ELSE sigReturned

\* GET /api/carve/signatures, or any other caller of getSignatures
GetSignatures ==
    /\ sigReturned' = getSignatures(signatures)
    /\ UNCHANGED <<signatures, sigCall>>

\* A caller assigns to a field of a record it was returned
ChangeReturned ==
    /\ sigReturned # <<>>
    /\ \E i \in 1..MaxChanged :
          \/ sigReturned' = [sigReturned EXCEPT ![i].enabled = ~@]
          \/ sigReturned' = [sigReturned EXCEPT ![i].name = "changed"]
    /\ UNCHANGED <<signatures, sigCall>>

SignaturesNext ==
    /\ PutSignature \/ GetSignatures \/ ChangeReturned
    /\ UNCHANGED <<scanVars, detectVars, carveVars, searchVars, stringsVars,
                   analyzeVars, decryptVars, jobVars,
                      progressVars, dateVars,
                      entropyVars,
                      uploadVars>>

SpecSignatures == SignaturesInit /\ [][SignaturesNext]_vars

\* Positions of SIG_ORDER whose flag is set
EnabledPositions == {i \in 1..Len(SIG_ORDER) : signatures[SIG_ORDER[i]]}

\* The enabled entries are returned, each once, in registry order
EnabledInRegistryOrder ==
    LET out == EnabledCopies(signatures)
    IN /\ Len(out) = Cardinality(EnabledPositions)
       /\ \A k \in 1..Len(out) :
              /\ out[k].enabled
              /\ \E i \in EnabledPositions :
                     /\ SIG_ORDER[i] = out[k].name
                     /\ Cardinality({j \in EnabledPositions : j < i}) = k - 1

PROGRESS_UNIT == 64 * 1024
\* MAX_FILE_SIZE_SYNC, in units
SYNC_UNITS == (512 * 1024 * 1024) \div PROGRESS_UNIT
\* CHUNK_SIZE of the streaming branch of extractStrings, in units
STRINGS_CHUNK_UNITS == (16 * 1024 * 1024) \div PROGRESS_UNIT
\* CHUNK_SIZE of carveMediaStreaming, in units
CARVE_CHUNK_UNITS == (32 * 1024 * 1024) \div PROGRESS_UNIT
\* i % 10 === 0 of the walk of analyzeBBBackup
ANALYZE_STEP == 10

\* Sizes of streamed files: SYNC_UNITS + 1 .. SYNC_UNITS + MaxOverSync units
MaxOverSync == 12
\* files.length of keywordSearch and allFiles.length of analyzeBBBackup
MaxProgressFiles == 12
\* content.length of the whole-file branches, in units of the reporting step
\* (100000 bytes in extractStrings, 500000 bytes in carveMedia)
MaxWholeLen == 4

\* Math.round((a / b) * k) for a >= 0, b > 0
RoundPct(a, b, k) == (2 * a * k + b) \div (2 * b)

StreamSizes == (SYNC_UNITS + 1)..(SYNC_UNITS + MaxOverSync)

ProgressInit ==
    /\ ScanIdle
    /\ DetectIdle
    /\ CarveIdle
    /\ SearchIdle
    /\ StringsIdle
    /\ AnalyzeIdle
    /\ DecryptIdle
    /\ JobsIdle
    /\ RegistryIdle
    /\ SignaturesIdle
    /\ ProgressIdle
    /\ DateIdle
    /\ EntropyIdle
    /\ UploadIdle

\* A job is created (progress 0) and its processor is called
ProgressStart(proc, pc, size, first) ==
    /\ progRun.pc \in {"idle", "done"}
    /\ progRun' = [proc |-> proc, pc |-> pc, size |-> size, pos |-> 0]
    /\ progPct' = first

\* keywordSearch: const files = collectFiles(dirPath)
StartKeywordSearch == \E n \in 0..MaxProgressFiles : ProgressStart("keywordSearch", "for", n, 0)

\* keywordSearch: one pass of the for loop; it reports (i + 1) / files.length
\* unless hits.length > 500 ends the loop first
SearchFileDone ==
    /\ progRun.proc = "keywordSearch" /\ progRun.pc = "for"
    /\ progRun.pos < progRun.size
    /\ \/ /\ progPct' = RoundPct(progRun.pos + 1, progRun.size, 100)
          /\ progRun' = [progRun EXCEPT !.pos = @ + 1]
       \/ /\ progPct' = RoundPct(progRun.pos + 1, progRun.size, 100)
          /\ progRun' = [progRun EXCEPT !.pc = "done"]
       \/ /\ progPct' = progPct
          /\ progRun' = [progRun EXCEPT !.pc = "done"]

\* keywordSearch: the loop ends, return hits
SearchReturn ==
    /\ progRun.proc = "keywordSearch" /\ progRun.pc = "for"
    /\ progRun.pos = progRun.size
    /\ progRun' = [progRun EXCEPT !.pc = "done"]
    /\ progPct' = progPct

\* extractStrings: onProgress(10), then the branch checkFileSize selects
StartExtractStrings ==
    \/ \E n \in StreamSizes : ProgressStart("extractStrings", "stream", n, 10)
    \/ \E n \in 0..MaxWholeLen : ProgressStart("extractStrings", "whole", n, 10)

\* extractStrings, streaming: one chunk; globalOffset += bytesRead
StringsChunk ==
    /\ progRun.proc = "extractStrings" /\ progRun.pc = "stream"
    /\ progRun.pos < progRun.size
    /\ LET nRead == Min(STRINGS_CHUNK_UNITS, progRun.size - progRun.pos)
           offsetAfter == progRun.pos + nRead
       IN  /\ progPct' = 10 + RoundPct(offsetAfter, progRun.size, 80)
           /\ \/ progRun' = [progRun EXCEPT !.pos = offsetAfter]
              \/ progRun' = [progRun EXCEPT !.pos = offsetAfter, !.pc = "end"]

\* extractStrings, whole file: the pass with i % 100000 === 0
StringsWholeStep ==
    /\ progRun.proc = "extractStrings" /\ progRun.pc = "whole"
    /\ progRun.pos < progRun.size
    /\ progPct' = 10 + RoundPct(progRun.pos, progRun.size, 80)
    /\ \/ progRun' = [progRun EXCEPT !.pos = @ + 1]
       \/ progRun' = [progRun EXCEPT !.pos = @ + 1, !.pc = "end"]

\* carveMedia: onProgress(5) in both branches
StartCarveMedia ==
    \/ \E n \in StreamSizes : ProgressStart("carveMedia", "stream", n, 5)
    \/ \E n \in 1..MaxWholeLen : ProgressStart("carveMedia", "jpg", n, 5)

\* carveMediaStreaming at CARVE_CHUNK_UNITS: one chunk; globalOffset += CHUNK_SIZE
CarveChunkAt(chunk) ==
    /\ progRun.proc = "carveMedia" /\ progRun.pc = "stream"
    /\ progRun.pos < progRun.size
    /\ LET offsetAfter == progRun.pos + chunk
       IN  /\ progPct' = 5 + RoundPct(offsetAfter, progRun.size, 90)
           /\ \/ progRun' = [progRun EXCEPT !.pos = offsetAfter]
              \/ progRun' = [progRun EXCEPT !.pos = offsetAfter, !.pc = "end"]

CarveChunk == CarveChunkAt(CARVE_CHUNK_UNITS)

\* carveMedia, whole file: offset advances (offset++ or offset = end) to a
\* multiple of the reporting step; base is 5 in the JPG loop, 50 in the PNG loop
CarveWholeStep ==
    /\ progRun.proc = "carveMedia" /\ progRun.pc \in {"jpg", "png"}
    /\ progRun.pos < progRun.size
    /\ \E reached \in (progRun.pos + 1)..progRun.size :
        /\ progPct' = (IF progRun.pc = "jpg" THEN 5 ELSE 50)
                          + RoundPct(reached, progRun.size, 40)
        /\ progRun' = [progRun EXCEPT !.pos = reached]

\* carveMedia, whole file: the JPG loop ends, onProgress(50), offset = 0
CarveHalf ==
    /\ progRun.proc = "carveMedia" /\ progRun.pc = "jpg"
    /\ progRun' = [progRun EXCEPT !.pc = "png", !.pos = 0]
    /\ progPct' = 50

\* The loop of a run is over (its test fails, or it breaks at the cap)
LoopOver ==
    \/ progRun.pc \in {"stream", "whole"} /\ progRun.pos >= progRun.size
    \/ progRun.pc = "png"
    \/ progRun.pc = "end"

\* extractStrings / carveMedia: onProgress(100) before the return
ProgressFinish ==
    /\ progRun.proc \in {"extractStrings", "carveMedia"}
    /\ LoopOver
    /\ progRun' = [progRun EXCEPT !.pc = "done"]
    /\ progPct' = 100

\* analyzeBBBackup: onProgress(2), onProgress(5), then the walk
StartAnalyze ==
    \E n \in 0..MaxProgressFiles : ProgressStart("analyzeBBBackup", "walk", n, 5)

\* analyzeBBBackup: file i of the walk; a file that is skipped (continue)
\* reports nothing, the others report when i % 10 === 0
AnalyzeWalkStep ==
    /\ progRun.proc = "analyzeBBBackup" /\ progRun.pc = "walk"
    /\ progRun.pos < progRun.size
    /\ progRun' = [progRun EXCEPT !.pos = @ + 1]
    /\ \/ progPct' = progPct
       \/ /\ progRun.pos % ANALYZE_STEP = 0
          /\ progPct' = 5 + RoundPct(progRun.pos, progRun.size, 60)

\* onProgress(70), (75), (80), (85), (100) after the walk
ANALYZE_STAGES == <<70, 75, 80, 85, 100>>

AnalyzeStage ==
    /\ progRun.proc = "analyzeBBBackup"
    /\ \/ /\ progRun.pc = "walk" /\ progRun.pos = progRun.size
          /\ progRun' = [progRun EXCEPT !.pc = "stages", !.pos = 1]
       \/ /\ progRun.pc = "stages" /\ progRun.pos + 1 < Len(ANALYZE_STAGES)
          /\ progRun' = [progRun EXCEPT !.pos = @ + 1]
       \/ /\ progRun.pc = "stages" /\ progRun.pos + 1 = Len(ANALYZE_STAGES)
          /\ progRun' = [progRun EXCEPT !.pos = @ + 1, !.pc = "done"]
    /\ progPct' = ANALYZE_STAGES[progRun'.pos]

ProgressNext ==
    /\ \/ StartKeywordSearch
       \/ SearchFileDone
       \/ SearchReturn
       \/ StartExtractStrings
       \/ StringsChunk
       \/ StringsWholeStep
       \/ StartCarveMedia
       \/ CarveChunk
       \/ CarveWholeStep
       \/ CarveHalf
       \/ ProgressFinish
       \/ StartAnalyze
       \/ AnalyzeWalkStep
       \/ AnalyzeStage
    /\ UNCHANGED <<scanVars, detectVars, carveVars, searchVars, stringsVars,
                   analyzeVars, decryptVars, jobVars, registryVars, sigApiVars,
                      dateVars,
                      entropyVars,
                      uploadVars>>

SpecProgress == ProgressInit /\ [][ProgressNext]_vars

\* C22: every percentage passed to a progress callback by keywordSearch,
\* extractStrings, carveMedia (streaming branch included) and analyzeBBBackup
\* lies in 0..100, whatever the file size and the file count.
C22_PercentInRange == progPct \in 0..100

\* ---------------------------------------------------------------------------
\* findDateArtifacts (bbAnalyzer.ts): the two passes over the text of the
\* buffer, /\b(1[0-9]{9})\b/g and /\b(1[0-9]{12})\b/g. Texts are sequences of
\* one-character strings; numbers are kept as their digits, because the
\* 13-digit values do not fit the integers of the checker. The texts used
\* are ASCII, so buffer.toString("utf-8") maps byte to character one to
\* one, and their 8-byte big-endian reads (first pass of the function, all
\* bytes >= 0x20) are far above 2524608000000: that pass pushes nothing.
\* ---------------------------------------------------------------------------

DIGITS == <<"0", "1", "2", "3", "4", "5", "6", "7", "8", "9">>

IsDigitChar(c) == \E d \in 1..Len(DIGITS) : DIGITS[d] = c

\* \w of the regular expression: [A-Za-z0-9_]; the texts hold the letter x
IsWordChar(c) == IsDigitChar(c) \/ c \in {"x", "_"}

DigitVal(c) == (CHOOSE d \in 1..Len(DIGITS) : DIGITS[d] = c) - 1

\* a < b for two digit strings of the same length (ts > lo, ts < hi after
\* parseInt, the bound written with as many digits as the match)
DigitsLess(a, b) ==
    \E i \in 1..Len(a) :
        /\ DigitVal(a[i]) < DigitVal(b[i])
        /\ \A j \in 1..(i - 1) : a[j] = b[j]

\* 946684800 and 2524608000 (line 319; line 335 with three more zeros)
UNIX_LO == <<"0", "9", "4", "6", "6", "8", "4", "8", "0", "0">>
UNIX_HI == <<"2", "5", "2", "4", "6", "0", "8", "0", "0", "0">>
JAVA_LO == UNIX_LO \o <<"0", "0", "0">>
JAVA_HI == UNIX_HI \o <<"0", "0", "0">>
\* unixCount < 5, unix13Count < 5
DATE_CAP == 5
UNIX_DIGITS == 10
JAVA_DIGITS == 13

\* \b at index i of the text (between the characters i and i + 1, 1-based)
WordBoundary(text, i) ==
    LET before == i >= 1 /\ i <= Len(text) /\ IsWordChar(text[i])
        after == i + 1 >= 1 /\ i + 1 <= Len(text) /\ IsWordChar(text[i + 1])
    IN  before # after

\* /\b(1[0-9]{n-1})\b/ matches at 0-based index p
PatternAt(text, p, n) ==
    /\ p + n <= Len(text)
    /\ WordBoundary(text, p)
    /\ text[p + 1] = "1"
    /\ \A k \in 2..n : IsDigitChar(text[p + k])
    /\ WordBoundary(text, p + n)

\* pattern.exec(text) with lastIndex = from: index of the match, or -1 (null)
ExecFrom(text, from, n) ==
    LET found == {p \in from..(Len(text) - n) : PatternAt(text, p, n)}
    IN  IF found = {} THEN -1 ELSE CHOOSE p \in found : \A q \in found : p <= q

DateArtifact(raw, fmt) == [rawValue |-> raw, format |-> fmt]

\* Texts: up to MaxDateTokens tokens in a row, one text with more stamps
\* than the cap, and one with a 13-digit stamp
MaxDateTokens == 3

DateTokens ==
    { <<"1", "0", "0", "0", "0", "0", "0", "0", "0", "0">>,
      <<"1", "9", "9", "9", "9", "9", "9", "9", "9", "9">>,
      <<"2", "0", "0", "0", "0", "0", "0", "0", "0", "0">>,
      <<"1">>, <<" ">>, <<"x">> }

RECURSIVE TokenTexts(_)
TokenTexts(n) ==
    IF n = 0 THEN {<<>>}
    ELSE LET shorter == TokenTexts(n - 1)
         IN  shorter \cup {t \o k : t \in shorter, k \in DateTokens}

RECURSIVE Stamps(_)
Stamps(n) ==
    IF n = 0 THEN <<>>
    ELSE Stamps(n - 1) \o <<"1", "5", "0", "0", "0", "0", "0", "0", "0", DIGITS[n]>> \o <<" ">>

\* 1500000000000 between two spaces: a match of the 13-digit pattern
JavaStamp == <<" ", "1", "5">> \o [k \in 1..(JAVA_DIGITS - 2) |-> "0"] \o <<" ">>

DateTexts == TokenTexts(MaxDateTokens) \cup {Stamps(DATE_CAP + 2), JavaStamp}

DateInit ==
    /\ ScanIdle
    /\ DetectIdle
    /\ CarveIdle
    /\ SearchIdle
    /\ StringsIdle
    /\ AnalyzeIdle
    /\ DecryptIdle
    /\ JobsIdle
    /\ RegistryIdle
    /\ SignaturesIdle
    /\ ProgressIdle
    /\ EntropyIdle
    /\ UploadIdle
    /\ dateText \in DateTexts
    /\ datePc = "unix"
    /\ dateLast = 0
    /\ dateCount = 0
    /\ dateArtifacts = <<>>

\* One test of a while loop of findDateArtifacts and, when it passes, the body
DatePass(n, lo, hi, fmt, nextPc) ==
    LET at == ExecFrom(dateText, dateLast, n)
    IN  IF at # -1 /\ dateCount < DATE_CAP
        THEN LET raw == SubSeq(dateText, at + 1, at + n)
                 inRange == DigitsLess(lo, raw) /\ DigitsLess(raw, hi)
             IN  /\ dateArtifacts' = IF inRange
                                     THEN Append(dateArtifacts, DateArtifact(raw, fmt))
                                     ELSE dateArtifacts
                 /\ dateCount' = IF inRange THEN dateCount + 1 ELSE dateCount
                 /\ dateLast' = at + n
                 /\ UNCHANGED <<dateText, datePc>>
        ELSE /\ datePc' = nextPc
             /\ dateLast' = 0
             /\ dateCount' = 0
             /\ UNCHANGED <<dateText, dateArtifacts>>

\* while ((match = unixPattern.exec(text)) !== null && unixCount < 5)
DateUnixStep ==
    /\ datePc = "unix"
    /\ DatePass(UNIX_DIGITS, UNIX_LO, UNIX_HI, "unix_epoch", "unix13")

\* while ((match13 = unix13Pattern.exec(text)) !== null && unix13Count < 5)
DateUnix13Step ==
    /\ datePc = "unix13"
    /\ DatePass(JAVA_DIGITS, JAVA_LO, JAVA_HI, "java_epoch", "done")

DateNext ==
    /\ DateUnixStep \/ DateUnix13Step
    /\ UNCHANGED <<scanVars, detectVars, carveVars, searchVars, stringsVars,
                   analyzeVars, decryptVars, jobVars, registryVars, sigApiVars,
                   progressVars,
                      entropyVars,
                      uploadVars>>

SpecDates == DateInit /\ [][DateNext]_vars

\* The 10-digit decimal runs of the text whose value lies in
\* [946684800, 2524608000], as 0-based indexes in order of appearance
RunsInRange(text) ==
    LET isRun(p) ==
            /\ \A k \in 1..UNIX_DIGITS : IsDigitChar(text[p + k])
            /\ (p = 0 \/ ~IsDigitChar(text[p]))
            /\ (p + UNIX_DIGITS = Len(text) \/ ~IsDigitChar(text[p + UNIX_DIGITS + 1]))
        value(p) == SubSeq(text, p + 1, p + UNIX_DIGITS)
        within(p) == ~DigitsLess(value(p), UNIX_LO) /\ ~DigitsLess(UNIX_HI, value(p))
    IN  {p \in 0..(Len(text) - UNIX_DIGITS) : isRun(p) /\ within(p)}

\* The first DATE_CAP of these runs, as the set of their indexes
FirstRuns(text) ==
    {p \in RunsInRange(text) :
        Cardinality({q \in RunsInRange(text) : q < p}) < DATE_CAP}

UnixReported == SelectSeq(dateArtifacts, LAMBDA a : a.format = "unix_epoch")

\* C23: every 10-digit decimal run of the text whose value lies in
\* [946684800, 2524608000] is reported as a unix_epoch artifact, in order of
\* appearance, until five have been reported (so 2000000000 is reported).
C23_RunsInRangeReported ==
    datePc = "done" =>
        LET runs == FirstRuns(dateText)
        IN  /\ Len(UnixReported) = Cardinality(runs)
            /\ \A k \in 1..Len(UnixReported) :
                   \E p \in runs :
                       /\ Cardinality({q \in runs : q < p}) = k - 1
                       /\ UnixReported[k].rawValue = SubSeq(dateText, p + 1, p + UNIX_DIGITS)

----------------------------------------------------------------------------
(* carveMedia on a buffer that holds a single JPEG *)

\* Indexes at which needle occurs in content from index lo on
Occurs(content, needle, lo) ==
    {i \in lo..(Len(content) - Len(needle)) : MatchAt(content, needle, i)}

\* The buffer holds exactly one JPEG header and, after it, exactly one
\* footer, which starts more than 100 bytes after the header
SingleJpeg(content) ==
    /\ Cardinality(Occurs(content, JPG_HEADER, 0)) = 1
    /\ LET h == CHOOSE i \in Occurs(content, JPG_HEADER, 0) : TRUE
       IN  /\ Cardinality(Occurs(content, JPG_FOOTER, h + 1)) = 1
           /\ \A e \in Occurs(content, JPG_FOOTER, h + 1) : e - h > MIN_CARVE_SIZE

SingleHeader(content) == CHOOSE i \in Occurs(content, JPG_HEADER, 0) : TRUE
SingleEnd(content) ==
    (CHOOSE e \in Occurs(content, JPG_FOOTER, SingleHeader(content) + 1) : TRUE)
        + Len(JPG_FOOTER)

\* The run returned exactly the artifact of the single JPEG
OnlyTheJpeg(content) ==
    /\ Len(results) = 1
    /\ results[1].type = "jpg"
    /\ results[1].offset = SingleHeader(content)
    /\ results[1].size = SingleEnd(content) - SingleHeader(content)

\* C24 (as stated): carveMedia on a buffer below the size threshold that holds
\* exactly one JPEG header and, after it, one footer more than 100 bytes later
\* returns exactly one artifact: type jpg, offset the index of the header, size
\* the bytes from the header's first byte through the footer's last byte.
C24_SingleJpegCarved ==
    (WholeRunDone /\ SingleJpeg(Content(carveFile))) => OnlyTheJpeg(Content(carveFile))

\* C24 (amended): the same, for a match under the maximum carve size in a
\* buffer that holds no PNG header.
C24_SingleJpegUnderMaxCarved ==
    ( /\ WholeRunDone
      /\ SingleJpeg(Content(carveFile))
      /\ SingleEnd(Content(carveFile)) - SingleHeader(Content(carveFile)) < MAX_CARVE_SIZE
      /\ Occurs(Content(carveFile), PNG_HEADER, 0) = {} )
        => OnlyTheJpeg(Content(carveFile))

C24_Witness ==
    /\ WholeRunDone
    /\ SingleJpeg(Content(carveFile))
    /\ SingleEnd(Content(carveFile)) - SingleHeader(Content(carveFile)) < MAX_CARVE_SIZE
    /\ Occurs(Content(carveFile), PNG_HEADER, 0) = {}
    /\ OnlyTheJpeg(Content(carveFile))
    /\ SingleHeader(Content(carveFile)) > 0

----------------------------------------------------------------------------
(* detectEncryption on buffers of known entropy (bbAnalyzer.ts) *)

\* A buffer is named by how it is made: len bytes that cycle through the
\* values 0 .. values - 1, followed by a tail of ENTROPY_SAMPLE bytes that
\* are all zero ("zeros") or cycle through all 256 values ("ramp")
Cycle(values, len) == [i \in 1..len |-> (i - 1) % values] \o <<>>

EntropyBytes(d) ==
    Cycle(d.values, d.len)
        \o (CASE d.tail = "none" -> <<>>
              [] d.tail = "zeros" -> Cycle(1, ENTROPY_SAMPLE)
              [] d.tail = "ramp" -> Cycle(256, ENTROPY_SAMPLE))

\* Lengths of the short buffers: 1 .. MaxShortLen
MaxShortLen == 24
\* Whole cycles in the buffers of middle length: 1 .. MaxCycles
MaxCycles == 2

ShortBuffers ==
    {[values |-> v, len |-> n, tail |-> "none"] :
        v \in {1, 2, 3, 16, 256}, n \in 1..MaxShortLen}

CycleBuffers ==
    {[values |-> v, len |-> v * r, tail |-> "none"] :
        v \in {100, 128, 160, 256}, r \in 1..MaxCycles}

SampleBuffers ==
    {[values |-> v, len |-> ENTROPY_SAMPLE, tail |-> t] :
        v \in {1, 16, 128, 256}, t \in {"none", "zeros", "ramp"}}

EntropyInit ==
    /\ ScanIdle
    /\ DetectIdle
    /\ CarveIdle
    /\ SearchIdle
    /\ StringsIdle
    /\ AnalyzeIdle
    /\ DecryptIdle
    /\ JobsIdle
    /\ RegistryIdle
    /\ SignaturesIdle
    /\ ProgressIdle
    /\ DateIdle
    /\ UploadIdle
    /\ entInput \in ShortBuffers \cup CycleBuffers \cup SampleBuffers
    /\ entFlagged = "pending"

\* const encrypted = detectEncryption(content)
DetectEncryption ==
    /\ entFlagged = "pending"
    /\ entFlagged' = IF detectEncryption(EntropyBytes(entInput)) THEN "yes" ELSE "no"
    /\ UNCHANGED entInput

EntropyNext ==
    /\ DetectEncryption
    /\ UNCHANGED <<scanVars, detectVars, carveVars, searchVars, stringsVars,
                   analyzeVars, decryptVars, jobVars, registryVars, sigApiVars,
                   progressVars, dateVars,
                      uploadVars>>

SpecEntropy == EntropyInit /\ [][EntropyNext]_vars

\* The first min(length, 4096) bytes of the buffer are whole cycles through
\* its values: every value has the same frequency, the entropy is log2(values)
WholeCycles(d) == Min(d.len, ENTROPY_SAMPLE) % d.values = 0 /\ d.len >= d.values

\* The entropy of the first min(length, 4096) bytes exceeds 7.0. A sample of
\* at most 128 bytes has entropy at most log2(128) = 7; a sample of whole
\* cycles through v values has entropy log2(v), above 7 exactly when v > 128.
EntropyAboveSeven(d) ==
    IF d.len <= 128 THEN FALSE ELSE d.values > 128

\* C26: detectEncryption flags a buffer exactly when the Shannon entropy of
\* the histogram of its first min(length, 4096) bytes exceeds 7.0; the all-zero
\* buffer of 4096 bytes is not flagged; bytes after the first 4096 never
\* change the outcome.
C26_FlaggedIffEntropyAboveSeven ==
    (entFlagged # "pending" /\ (entInput.len <= 128 \/ WholeCycles(entInput))) =>
        (entFlagged = "yes" <=> EntropyAboveSeven(entInput))

C26_Witness ==
    /\ entInput = [values |-> 128, len |-> ENTROPY_SAMPLE, tail |-> "ramp"]
    /\ entFlagged = "no"

\* The first header of either signature in the file, as <<type, index>>, or
\* <<"none", -1>>
FirstHeader(content) ==
    LET j == IndexOf(content, JPG_HEADER, 0)
        p == IndexOf(content, PNG_HEADER, 0)
    IN  IF j = -1 /\ p = -1 THEN <<"none", -1>>
        ELSE IF p = -1 \/ (j # -1 /\ j < p) THEN <<"jpg", j>>
        ELSE <<"png", p>>

\* The match the carver inspects first for signature t: the first header of t
\* and its first footer; on the streaming path the first header of the file,
\* when its footer lies within the first read
FirstMatch(content, t) ==
    LET h == IF SizeOk(content) THEN IndexOf(content, Header(t), 0)
             ELSE IF FirstHeader(content)[1] = t THEN FirstHeader(content)[2] ELSE -1
        end == IF h = -1 THEN -1 ELSE MatchEnd(content, t, h)
    IN  IF end = -1 \/ (~SizeOk(content) /\ end > CARVE_CHUNK_SIZE + CARVE_OVERLAP)
        THEN <<-1, -1>>
        ELSE <<h, end>>

\* C27: the carver discards a header-to-footer match only when its length is
\* below 100 bytes or not under the maximum size: a match of exactly 100 bytes
\* is emitted, and every emitted artifact has size >= 100, on the whole-file
\* path and on the streaming path.
C27_HundredBytesEmitted ==
    /\ \A i \in 1..Len(results) : results[i].size >= MIN_CARVE_SIZE
    /\ carvePc = "done" =>
           \A t \in CarveSigs :
               LET m == FirstMatch(Content(carveFile), t)
                   sz == m[2] - m[1]
               IN  (m[1] # -1 /\ sz >= MIN_CARVE_SIZE /\ sz < MAX_CARVE_SIZE)
                       => Emitted(t, m[1], sz)

----------------------------------------------------------------------------
(* detectBackupFormat: the magic rules and short files *)

\* C28: detectBackupFormat returns BB10_TAR_QNX or BB10_TAR_PER only if some
\* file of the tree is at least 4 bytes long and its first 4 bytes equal the
\* magic of that type; a file shorter than 4 bytes (51 4E 58) never triggers
\* a magic rule.
C28_MagicNeedsFourBytes ==
    /\ format.type = "BB10_TAR_QNX" =>
           \E i \in 1..Len(tree) : StartsWith(tree[i], QNX_TAR_MAGIC)
    /\ format.type = "BB10_TAR_PER" =>
           \E i \in 1..Len(tree) : StartsWith(tree[i], PER_TAR_MAGIC)

----------------------------------------------------------------------------
(* POST /api/upload to media_scanner and extractArchive (routes.ts,          *)
(* processors.ts): which directory the "Extract & Scan" job scans           *)

\* Date.now() takes the values 1 .. MaxClock; at most MaxUploads uploads
MaxClock == 3
MaxUploads == 3

\* A directory: uploads/media_scanner/<stamp> or output/extracted_<stamp>
Dir(root, stamp) == [root |-> root, stamp |-> stamp]
NoDir == Dir("none", 0)

\* The job of one upload: kind "zip" (a single .zip: Extract & Scan) or
\* "files" (anything else: Scan n files); pc "import" while extractArchive
\* waits for import("child_process"), then "done"
UploadRun(kind, pc, uploadDir, extractDir, scanDir) ==
    [kind |-> kind, pc |-> pc, uploadDir |-> uploadDir, extractDir |-> extractDir,
     scanDir |-> scanDir]

UploadInit ==
    /\ ScanIdle
    /\ DetectIdle
    /\ CarveIdle
    /\ SearchIdle
    /\ StringsIdle
    /\ AnalyzeIdle
    /\ DecryptIdle
    /\ JobsIdle
    /\ RegistryIdle
    /\ SignaturesIdle
    /\ ProgressIdle
    /\ DateIdle
    /\ EntropyIdle
    /\ clock = 1
    /\ extractedDirs = {}
    /\ uploadRuns = <<>>

\* Time passes between two requests or tasks
ClockTick ==
    /\ clock < MaxClock
    /\ clock' = clock + 1
    /\ UNCHANGED <<extractedDirs, uploadRuns>>

\* POST /api/upload with one .zip file: the route and the body of the job up
\* to the first wait of extractArchive, which has made its directory
\* output/extracted_<Date.now()>
PostZip ==
    /\ Len(uploadRuns) < MaxUploads
    /\ extractedDirs' = extractedDirs \cup {clock}
    /\ uploadRuns' = Append(uploadRuns,
           UploadRun("zip", "import", Dir("uploads", clock), Dir("output", clock), NoDir))
    /\ UNCHANGED clock

\* POST /api/upload with other files: scanMediaFiles(uploadDir)
PostFiles ==
    /\ Len(uploadRuns) < MaxUploads
    /\ uploadRuns' = Append(uploadRuns,
           UploadRun("files", "done", Dir("uploads", clock), NoDir, Dir("uploads", clock)))
    /\ UNCHANGED <<clock, extractedDirs>>

\* fs.readdirSync(getOutputDir()).find(d => d.startsWith("extracted_")): the
\* first extracted_* entry in the order of the listing, which the code does
\* not fix; the listing holds at least the directory this run has made
FoundDirs == {Dir("output", t) : t \in extractedDirs}

\* extractArchive from the import to its return, then the rest of the body:
\* scanDir is the directory found (it exists), and scanMediaFiles runs on it
ExtractReturn(j) ==
    /\ uploadRuns[j].pc = "import"
    /\ \E found \in FoundDirs :
          uploadRuns' = [uploadRuns EXCEPT ![j].pc = "done", ![j].scanDir = found]
    /\ UNCHANGED <<clock, extractedDirs>>

UploadNext ==
    /\ \/ ClockTick
       \/ PostZip
       \/ PostFiles
       \/ \E j \in 1..Len(uploadRuns) : ExtractReturn(j)
    /\ UNCHANGED <<scanVars, detectVars, carveVars, searchVars, stringsVars,
                   analyzeVars, decryptVars, jobVars, registryVars, sigApiVars,
                   progressVars, dateVars, entropyVars>>

SpecUpload == UploadInit /\ [][UploadNext]_vars

\* C29: after any sequence of uploads, the "Extract & Scan" job started by the
\* upload of a single .zip scans the directory into which that same upload
\* was extracted, never an extracted_* directory left by an earlier upload.
C29_ScansOwnExtraction ==
    \A j \in 1..Len(uploadRuns) :
        (uploadRuns[j].kind = "zip" /\ uploadRuns[j].pc = "done")
            => uploadRuns[j].scanDir = uploadRuns[j].extractDir

----------------------------------------------------------------------------
(* analyzeBBBackup: totalArtifacts against the number of walked files *)

\* C30: in every result of analyzeBBBackup totalArtifacts counts each walked
\* file at most once, so it is at most the number of files, also for trees
\* that hold bbthumbs*.dat, .evt or event log files.
C30_ArtifactsAtMostFiles ==
    bbPc = "done" => totalArtifacts <= Len(allFiles)

====
